---------------------------- MODULE Spec2Model ----------------------------
(***************************************************************************)
(* Model of the dual-motor differential-drive controller                   *)
(* (chenzhaoqiJM/rt-diff-motor-control): encoder pulse counting, the       *)
(* target store and its control loop, the PWM/GPIO actuation path, the     *)
(* odometry module and the RPMsg text protocol dispatcher.                 *)
(*                                                                         *)
(* Number representation.  The C code computes in float/double.  The model *)
(* uses fixed point: a value parsed by atof() is held in thousandths       *)
(* (0.05 m -> 50, 0.5 rev/s -> 500), a duty fraction in units of 1e-7      *)
(* (1.0 -> 10000000).  Quotients that the code compares before storing     *)
(* them are carried as exact fractions [num, den].  32-bit counters are    *)
(* held as two 16-bit limbs <<hi, lo>> so that they keep their width.      *)
(*                                                                         *)
(* Text.  A C string is a sequence of one-character strings.               *)
(***************************************************************************)
EXTENDS Integers, Sequences, FiniteSets, TLC

(***************************************************************************)
(* Bounds of the model (not program constants).                            *)
(***************************************************************************)
\* number of edge interrupts followed per encoder line
MaxEdges == 5

\* number of odometry_update calls followed
MaxOdomUpdates == 2

\* rounds of the sampling thread that are followed
MaxSamples == 2

\* the calls of the odometry API that are made side by side
MaxOdoCalls == 3

(***************************************************************************)
(* libc helpers, as far as the parsers use them.                           *)
(***************************************************************************)
Min(a, b) == IF a < b THEN a ELSE b

Abs(a) == IF a < 0 THEN -a ELSE a

\* C division of integers: the quotient truncated toward zero
TruncDiv(a, b) == IF (a >= 0) = (b > 0) THEN Abs(a) \div Abs(b) ELSE -(Abs(a) \div Abs(b))

DigitChars == {"0", "1", "2", "3", "4", "5", "6", "7", "8", "9"}

DigitVal(c) ==
    CASE c = "0" -> 0 [] c = "1" -> 1 [] c = "2" -> 2 [] c = "3" -> 3
      [] c = "4" -> 4 [] c = "5" -> 5 [] c = "6" -> 6 [] c = "7" -> 7
      [] c = "8" -> 8 [] c = "9" -> 9

\* strchr: index of the first c in s, 0 for a NULL result
StrChr(s, c) ==
    IF \E i \in 1..Len(s) : s[i] = c
    THEN CHOOSE i \in 1..Len(s) : s[i] = c /\ \A j \in 1..(i - 1) : s[j] # c
    ELSE 0

\* strncpy(buf, s, n) followed by buf[n] = 0: at most n characters are kept
Strncpy(s, n) == SubSeq(s, 1, Min(Len(s), n))

\* the string that starts after index i (pointer i + 1)
StrFrom(s, i) == SubSeq(s, i + 1, Len(s))

\* the string cut at index i (s[i] = 0 written into the buffer)
StrUntil(s, i) == SubSeq(s, 1, i - 1)

\* strncmp(s, p, strlen(p)) == 0
HasPrefix(s, p) == Len(s) >= Len(p) /\ SubSeq(s, 1, Len(p)) = p

\* number of white-space characters atoi/atof skip at the start of s
SkipSpace(s) ==
    CHOOSE n \in 0..Len(s) :
        /\ \A k \in 1..n : s[k] = " "
        /\ (n = Len(s) \/ s[n + 1] # " ")

\* number of consecutive digits of s from index i on
DigitRun(s, i) ==
    CHOOSE n \in 0..(Len(s) - i + 1) :
        /\ \A k \in 0..(n - 1) : s[i + k] \in DigitChars
        /\ (i + n > Len(s) \/ s[i + n] \notin DigitChars)

RECURSIVE DecVal(_, _, _)
\* value of the n digits of s that start at index i
DecVal(s, i, n) ==
    IF n = 0 THEN 0 ELSE DecVal(s, i, n - 1) * 10 + DigitVal(s[i + n - 1])

\* sign of the number text that starts at index i: <<sign, index after it>>
SignAt(s, i) ==
    IF i <= Len(s) /\ s[i] = "-" THEN <<-1, i + 1>>
    ELSE IF i <= Len(s) /\ s[i] = "+" THEN <<1, i + 1>>
    ELSE <<1, i>>

\* atoi: optional space, optional sign, decimal digits; 0 when there are none
AtoI(s) ==
    LET sg == SignAt(s, SkipSpace(s) + 1)
        n  == DigitRun(s, sg[2])
    IN  sg[1] * DecVal(s, sg[2], n)

\* atof in thousandths: space, sign, digits, optional fraction (digits past the
\* third are dropped); 0 when no number starts the text
AtoF(s) ==
    LET sg   == SignAt(s, SkipSpace(s) + 1)
        n    == DigitRun(s, sg[2])
        dot  == sg[2] + n
        hasF == dot <= Len(s) /\ s[dot] = "."
        m    == IF hasF THEN DigitRun(s, dot + 1) ELSE 0
        d(k) == IF k <= m THEN DigitVal(s[dot + k]) ELSE 0
    IN  sg[1] * (DecVal(s, sg[2], n) * 1000 + d(1) * 100 + d(2) * 10 + d(3))

(***************************************************************************)
(* rt_uint32_t as two 16-bit limbs <<hi, lo>>.                             *)
(***************************************************************************)
Limb == 65536

U32(n) == <<(n \div Limb) % Limb, n % Limb>>

\* c + 1 in 32 bits
U32Inc(c) ==
    IF c[2] = Limb - 1 THEN <<(c[1] + 1) % Limb, 0>> ELSE <<c[1], c[2] + 1>>

\* c + n in 32 bits, n a small natural
U32Plus(c, n) ==
    LET lo == c[2] + n
    IN  <<(c[1] + lo \div Limb) % Limb, lo % Limb>>

\* a - b in 32 bits
U32Minus(a, b) ==
    LET borrow == IF a[2] < b[2] THEN 1 ELSE 0
    IN  <<(a[1] - b[1] - borrow + 2 * Limb) % Limb,
          (a[2] - b[2] + Limb) % Limb>>

\* the value of c, for c below 2^31
U32Val(c) == c[1] * Limb + c[2]

(***************************************************************************)
(* Text protocol parsers (src/src/rpmsg_motor.c) and the shell's speed     *)
(* argument parser (src/control_main.c).  Pure functions of the text.      *)
(***************************************************************************)
RECURSIVE StrTok(_, _)
\* the tokens strtok_r yields for s with the single delimiter c: the maximal
\* non-empty runs without c, in order
StrTok(s, c) ==
    IF s = <<>> THEN <<>>
    ELSE LET i == StrChr(s, c)
         IN  IF i = 0 THEN <<s>>
             ELSE IF i = 1 THEN StrTok(Tail(s), c)
             ELSE <<StrUntil(s, i)>> \o StrTok(StrFrom(s, i), c)

CMD_PREFIX_CFG == <<"C", "F", "G", ":">>

CMD_PREFIX_VEL == <<"V", "E", "L", ":">>

CMD_PREFIX_RST == <<"R", "S", "T", ":">>

KEY_WHEEL_RADIUS ==
    <<"w", "h", "e", "e", "l", "_", "r", "a", "d", "i", "u", "s">>

KEY_WHEEL_BASE == <<"w", "h", "e", "e", "l", "_", "b", "a", "s", "e">>

KEY_GEAR_RATIO == <<"g", "e", "a", "r", "_", "r", "a", "t", "i", "o">>

KEY_PPR == <<"p", "p", "r">>

\* one round of the while loop of parse_cfg_command: token "key=value" stored
\* into the local it names; a token without '=' or with another key is skipped
CfgToken(acc, token) ==
    LET eq == StrChr(token, "=")
    IN  IF eq = 0 THEN acc
        ELSE LET key   == StrUntil(token, eq)
                 value == AtoF(StrFrom(token, eq))
             IN  IF key = KEY_WHEEL_RADIUS THEN [acc EXCEPT !.wheel_radius = value]
                 ELSE IF key = KEY_WHEEL_BASE THEN [acc EXCEPT !.wheel_base = value]
                 ELSE IF key = KEY_GEAR_RATIO THEN [acc EXCEPT !.gear_ratio = value]
                 ELSE IF key = KEY_PPR THEN [acc EXCEPT !.encoder_ppr = value]
                 ELSE acc

RECURSIVE CfgTokens(_, _)
CfgTokens(acc, tokens) ==
    IF tokens = <<>> THEN acc
    ELSE CfgTokens(CfgToken(acc, Head(tokens)), Tail(tokens))

\* the four locals of parse_cfg_command after its loop (all start at 0.0f)
CfgLocals(cmd) ==
    CfgTokens([wheel_radius |-> 0, wheel_base |-> 0, gear_ratio |-> 0,
               encoder_ppr |-> 0],
              StrTok(Strncpy(cmd, 127), ";"))

\* plausible bug: only the wheel radius is checked
CfgAccepted_RadiusOnly(cfg) == ~(cfg.wheel_radius <= 0)

\* the check of parse_cfg_command: RT_EOK iff both lengths are positive
CfgAccepted(cfg) == ~(cfg.wheel_radius <= 0 \/ cfg.wheel_base <= 0)

\* parse_vel_command: "v,w" or "v"; it returns RT_EOK for every text
parse_vel_command(cmd) ==
    LET buf   == Strncpy(cmd, 31)
        comma == StrChr(buf, ",")
    IN  IF comma # 0
        THEN [ok |-> TRUE, v |-> AtoF(StrUntil(buf, comma)),
              w |-> AtoF(StrFrom(buf, comma))]
        ELSE [ok |-> TRUE, v |-> AtoF(buf), w |-> 0]

\* the "dir,speed" half of a legacy frame: the out-parameters keep their
\* preset 0 when the half holds no comma
LegacyHalf(str) ==
    LET comma == StrChr(str, ",")
    IN  IF comma # 0
        THEN [dir |-> AtoI(StrUntil(str, comma)), speed |-> AtoF(StrFrom(str, comma))]
        ELSE [dir |-> 0, speed |-> 0]

\* plausible bug: the text after the semicolon is never read
parse_legacy_speed_command_FirstOnly(cmd) ==
    IF cmd = <<>>
    THEN [ok |-> FALSE, dir1 |-> 0, speed1 |-> 0, dir2 |-> 0, speed2 |-> 0]
    ELSE LET buf       == Strncpy(cmd, 63)
             semicolon == StrChr(buf, ";")
             m1 == IF semicolon # 0 THEN LegacyHalf(StrUntil(buf, semicolon))
                   ELSE LegacyHalf(buf)
         IN  [ok |-> TRUE, dir1 |-> m1.dir, speed1 |-> m1.speed,
              dir2 |-> 0, speed2 |-> 0]

\* plausible bug: a single pair is applied to both wheels
parse_legacy_speed_command_Mirror(cmd) ==
    IF cmd = <<>>
    THEN [ok |-> FALSE, dir1 |-> 0, speed1 |-> 0, dir2 |-> 0, speed2 |-> 0]
    ELSE LET buf       == Strncpy(cmd, 63)
             semicolon == StrChr(buf, ";")
             m1 == IF semicolon # 0 THEN LegacyHalf(StrUntil(buf, semicolon))
                   ELSE LegacyHalf(buf)
             m2 == IF semicolon # 0 THEN LegacyHalf(StrFrom(buf, semicolon))
                   ELSE m1
         IN  [ok |-> TRUE, dir1 |-> m1.dir, speed1 |-> m1.speed,
              dir2 |-> m2.dir, speed2 |-> m2.speed]

\* parse_legacy_speed_command: "dir1,speed1;dir2,speed2" or "dir1,speed1"
parse_legacy_speed_command(cmd) ==
    IF cmd = <<>>
    THEN [ok |-> FALSE, dir1 |-> 0, speed1 |-> 0, dir2 |-> 0, speed2 |-> 0]
    ELSE LET buf       == Strncpy(cmd, 63)
             semicolon == StrChr(buf, ";")
             m1 == IF semicolon # 0 THEN LegacyHalf(StrUntil(buf, semicolon))
                   ELSE LegacyHalf(buf)
             m2 == IF semicolon # 0 THEN LegacyHalf(StrFrom(buf, semicolon))
                   ELSE [dir |-> 0, speed |-> 0]
         IN  [ok |-> TRUE, dir1 |-> m1.dir, speed1 |-> m1.speed,
              dir2 |-> m2.dir, speed2 |-> m2.speed]

\* parse_speed_cmd of the shell: "dir,speed"; -RT_ERROR for an empty text or a
\* text without a comma
parse_speed_cmd(cmd) ==
    IF cmd = <<>> THEN [ok |-> FALSE, dir |-> 0, speed |-> 0]
    ELSE LET buf   == Strncpy(cmd, 31)
             comma == StrChr(buf, ",")
         IN  IF comma = 0 THEN [ok |-> FALSE, dir |-> 0, speed |-> 0]
             ELSE [ok |-> TRUE, dir |-> AtoI(StrUntil(buf, comma)),
                   speed |-> AtoF(StrFrom(buf, comma))]

\* a cmd_speed that would not look at what the second parse returned
CmdSpeedLocals_SecondUnchecked(arg) ==
    LET buf       == Strncpy(arg, 63)
        semicolon == StrChr(buf, ";")
        p1 == IF semicolon # 0 THEN parse_speed_cmd(StrUntil(buf, semicolon))
              ELSE parse_speed_cmd(buf)
        p2 == IF semicolon # 0 THEN parse_speed_cmd(StrFrom(buf, semicolon))
              ELSE [ok |-> TRUE, dir |-> 0, speed |-> 0]
    IN  [ok |-> p1.ok, dir1 |-> p1.dir, speed1 |-> p1.speed,
         dir2 |-> p2.dir, speed2 |-> p2.speed]

\* the parsing part of cmd_speed: the locals dir1, speed1, dir2, speed2 (preset
\* to 0) and whether the command goes on to the write (a failed half returns -1)
CmdSpeedLocals(arg) ==
    LET buf       == Strncpy(arg, 63)
        semicolon == StrChr(buf, ";")
        p1 == IF semicolon # 0 THEN parse_speed_cmd(StrUntil(buf, semicolon))
              ELSE parse_speed_cmd(buf)
        p2 == IF semicolon # 0 THEN parse_speed_cmd(StrFrom(buf, semicolon))
              ELSE [ok |-> TRUE, dir |-> 0, speed |-> 0]
    IN  [ok |-> p1.ok /\ p2.ok, dir1 |-> p1.dir, speed1 |-> p1.speed,
         dir2 |-> p2.dir, speed2 |-> p2.speed]

(***************************************************************************)
(* Frames and shell arguments the specifications feed to the program.      *)
(***************************************************************************)
\* "CFG:wheel_radius=0.05;wheel_base=0.2;gear_ratio=56;ppr=11"
F_CFG ==
    <<"C", "F", "G", ":", "w", "h", "e", "e", "l", "_", "r", "a", "d", "i",
      "u", "s", "=", "0", ".", "0", "5", ";", "w", "h", "e", "e", "l", "_",
      "b", "a", "s", "e", "=", "0", ".", "2", ";", "g", "e", "a", "r", "_",
      "r", "a", "t", "i", "o", "=", "5", "6", ";", "p", "p", "r", "=", "1",
      "1">>

\* "CFG:wheel_radius=0.1;wheel_base=0.4"
F_CFG_B ==
    <<"C", "F", "G", ":", "w", "h", "e", "e", "l", "_", "r", "a", "d", "i",
      "u", "s", "=", "0", ".", "1", ";", "w", "h", "e", "e", "l", "_", "b",
      "a", "s", "e", "=", "0", ".", "4">>

\* "CFG:wheel_radius=0;wheel_base=0.2;gear_ratio=30;ppr=7"
F_CFG_ZERO_RADIUS ==
    <<"C", "F", "G", ":", "w", "h", "e", "e", "l", "_", "r", "a", "d", "i",
      "u", "s", "=", "0", ";", "w", "h", "e", "e", "l", "_", "b", "a", "s",
      "e", "=", "0", ".", "2", ";", "g", "e", "a", "r", "_", "r", "a", "t",
      "i", "o", "=", "3", "0", ";", "p", "p", "r", "=", "7">>

\* "CFG:wheel_radius=0.05;wheel_base=-0.2"
F_CFG_NEG_BASE ==
    <<"C", "F", "G", ":", "w", "h", "e", "e", "l", "_", "r", "a", "d", "i",
      "u", "s", "=", "0", ".", "0", "5", ";", "w", "h", "e", "e", "l", "_",
      "b", "a", "s", "e", "=", "-", "0", ".", "2">>

\* "CFG:wheel_base=0.2;ppr=13"
F_CFG_NO_RADIUS ==
    <<"C", "F", "G", ":", "w", "h", "e", "e", "l", "_", "b", "a", "s", "e",
      "=", "0", ".", "2", ";", "p", "p", "r", "=", "1", "3">>

\* "VEL:0.5,0.0"
F_VEL_FWD ==
    <<"V", "E", "L", ":", "0", ".", "5", ",", "0", ".", "0">>

\* "VEL:0.25"
F_VEL_V_ONLY ==
    <<"V", "E", "L", ":", "0", ".", "2", "5">>

\* "VEL:0.1,2"
F_VEL_TURN ==
    <<"V", "E", "L", ":", "0", ".", "1", ",", "2">>

\* "VEL:-0.5,0"
F_VEL_BACK ==
    <<"V", "E", "L", ":", "-", "0", ".", "5", ",", "0">>

\* "VEL:0.1,1"
F_VEL_PIVOT ==
    <<"V", "E", "L", ":", "0", ".", "1", ",", "1">>

\* "VEL:abc"
F_VEL_ABC ==
    <<"V", "E", "L", ":", "a", "b", "c">>

\* "VEL:"
F_VEL_NONE ==
    <<"V", "E", "L", ":">>

\* "VEL:0.000,0.000"
F_VEL_ZERO ==
    <<"V", "E", "L", ":", "0", ".", "0", "0", "0", ",", "0", ".", "0", "0",
      "0">>

\* "RST:"
F_RST ==
    <<"R", "S", "T", ":">>

\* "1,0.5;2,0.3"
F_LEGACY_BOTH ==
    <<"1", ",", "0", ".", "5", ";", "2", ",", "0", ".", "3">>

\* "0,0;0,0"
F_LEGACY_STOP ==
    <<"0", ",", "0", ";", "0", ",", "0">>

\* "2,1.5"
F_LEGACY_ONE ==
    <<"2", ",", "1", ".", "5">>

\* "3,1.0"
F_LEGACY_BAD_DIR ==
    <<"3", ",", "1", ".", "0">>

\* "garbage"
F_GARBAGE ==
    <<"g", "a", "r", "b", "a", "g", "e">>

\* ""
F_EMPTY ==
    <<>>

\* "1,2.0;1,2.0"
A_BOTH ==
    <<"1", ",", "2", ".", "0", ";", "1", ",", "2", ".", "0">>

\* "2,1.5"
A_ONE ==
    <<"2", ",", "1", ".", "5">>

\* "0,0;0,0"
A_STOP ==
    <<"0", ",", "0", ";", "0", ",", "0">>

\* "1,2.0;x"
A_HALF_BAD ==
    <<"1", ",", "2", ".", "0", ";", "x">>

\* "x;1,2.0"
A_FIRST_BAD ==
    <<"x", ";", "1", ",", "2", ".", "0">>

\* "2,1.5;"
A_SECOND_EMPTY ==
    <<"2", ",", "1", ".", "5", ";">>

\* ";2,1.5"
A_FIRST_EMPTY ==
    <<";", "2", ",", "1", ".", "5">>

\* "fast"
A_NO_COMMA ==
    <<"f", "a", "s", "t">>

\* "1,1.0;2,0.3"
A_MOTOR_BOTH ==
    <<"1", ",", "1", ".", "0", ";", "2", ",", "0", ".", "3">>

\* "1,0.5"
A_MOTOR_ONE ==
    <<"1", ",", "0", ".", "5">>


\* "0,2.5;0,-1"
A_STOP_FAST ==
    <<"0", ",", "2", ".", "5", ";", "0", ",", "-", "1">>

\* "1,0;2,0"
A_ZERO_SPEED ==
    <<"1", ",", "0", ";", "2", ",", "0">>

\* "1,3.5;2,3.6"
A_NEAR_FULL ==
    <<"1", ",", "3", ".", "5", ";", "2", ",", "3", ".", "6">>

\* "1,-2;2,-2"
A_NEGATIVE ==
    <<"1", ",", "-", "2", ";", "2", ",", "-", "2">>

\* "1,100;2,100"
A_HUGE ==
    <<"1", ",", "1", "0", "0", ";", "2", ",", "1", "0", "0">>

\* "1,100;3,100"
A_BAD_DIR2 ==
    <<"1", ",", "1", "0", "0", ";", "3", ",", "1", "0", "0">>

\* "2,100;1,100"
A_HUGE_SWAPPED ==
    <<"2", ",", "1", "0", "0", ";", "1", ",", "1", "0", "0">>

\* "0,1000;1,0.5"
A_STOP_HUGE ==
    <<"0", ",", "1", "0", "0", "0", ";", "1", ",", "0", ".", "5">>

\* "5"
A_INTERVAL_SHORT ==
    <<"5">>

\* "50"
A_INTERVAL ==
    <<"5", "0">>

\* "0"
A_INTERVAL_ZERO ==
    <<"0">>

\* "-5"
A_INTERVAL_NEGATIVE ==
    <<"-", "5">>

\* "9"
A_INTERVAL_NINE ==
    <<"9">>
VARIABLES
    \* src/src/encoder.c, per wheel m in 1..2
    encoder_count,          \* encoder<m>_count
    encoder_has_rising,     \* encoder<m>_has_rising
    edges,                  \* history: the pin levels the callbacks of m read
    start_count,            \* history: the count m started from
    encoder_last_count,     \* encoder<m>_last_count
    sampler,                \* encoder_print_thread_entry: position and locals
    shared_speed,           \* shared_speed<m>, thousandths of rev/s
    shared_delta,           \* shared_delta<m>
    sample_log,             \* history of the sampling thread
    \* src/control_main.c: the target store
    motor1_target_dir,
    motor2_target_dir,
    motor1_target_speed,    \* thousandths of rev/s
    motor2_target_speed,
    target_mutex,           \* the thread that holds it, or "none"
    last_write,             \* history: <<dir1, speed1, dir2, speed2>> of the
                            \* last writer call that completed its stores
    prev_write,             \* history: the four targets as that call found them
    \* the control thread: its position and the locals of
    \* chassis_ctrl_thread_entry
    chassis,
    \* the actuator, per motor m in 1..2
    motor_pins,             \* what the direction pins of m select
    pwm_pulse,              \* pulse width (ns) last given to rt_pwm_set
    motor_pwm_initialized,  \* motor<m>_pwm_initialized
    \* the shell thread: its position and the locals of the running command
    shell,
    \* src/src/rpmsg_motor.c
    rpmsg,                  \* the endpoint callback: position, frame, locals
    rpmsg_log,              \* the last diagnostic the callback printed
    new_protocol_enabled,
    target_linear_vel,      \* thousandths of m/s
    target_angular_vel,     \* thousandths of rad/s
    endpoint_ready,         \* motor_ctx.endpoint_ready
    feedback_enabled,
    feedback_interval_ms,
    feedback,               \* feedback_thread_entry: position and locals
    telemetry,              \* the frame last handed to rpmsg_send, what it
                            \* returned and what was printed about it
    \* src/src/odometry.c
    odom_config,            \* lengths in mm, ratios in thousandths
    odom_configured,
    odom_state,             \* x, y in um; theta in urad; v in mm/s; w in mrad/s
    rt_tick,                \* the system tick rt_tick_get() last returned
    odom_updates,           \* history: odometry_update calls made so far
    odo,                    \* the calls of the odometry API in progress:
                            \* who holds odom_mutex, each caller's position
                            \* and locals, and the states the completed
                            \* updates and resets have left (history)
    \* initialization: main() and rpmsg_motor_init(), the mutexes and threads
    \* they create
    boot,
    \* src/encoder_main.c, the pulse-count test program: pulse_count,
    \* pulse_last_count, pulse_has_rising, the print thread and the shell's
    \* pulse_reset with their positions and locals, and the pulses counted
    \* (history)
    pulse_test

encVars == <<encoder_count, encoder_has_rising, edges, start_count>>

estVars ==
    <<encoder_last_count, sampler, shared_speed, shared_delta, sample_log>>

fbVars ==
    <<endpoint_ready, feedback_enabled, feedback_interval_ms, feedback,
      telemetry>>

targetVals ==
    <<motor1_target_dir, motor2_target_dir, motor1_target_speed,
      motor2_target_speed, last_write, prev_write>>

targetVars == <<targetVals, target_mutex>>

actVars == <<motor_pins, pwm_pulse, motor_pwm_initialized>>

rpmsgVars ==
    <<rpmsg, rpmsg_log, new_protocol_enabled, target_linear_vel,
      target_angular_vel>>

odomVars == <<odom_config, odom_configured, odom_state, rt_tick, odom_updates>>

vars ==
    <<encVars, estVars, fbVars, pulse_test, odo, boot, targetVars, chassis,
      actVars, shell, rpmsgVars, odomVars>>

Wheels == {1, 2}

(***************************************************************************)
(* Program constants.                                                      *)
(***************************************************************************)
PWM_PERIOD == 100000

MOTOR1_ENCODER_PPR == 11

MOTOR1_REDUCTION_RATIO == 56

MOTOR2_ENCODER_PPR == 11

MOTOR2_REDUCTION_RATIO == 56

\* period_ms of the sampling thread
SamplePeriodMs == 50

DEFAULT_FEEDBACK_INTERVAL_MS == 20

RT_TICK_PER_SECOND == 1000

\* M_PI as the fraction PiNum / PiDen
PiNum == 355

PiDen == 113

\* M_PI in micro-radians, rounded up: pi lies strictly between PiMicro - 1 and
\* PiMicro micro-radians, so an angle of whole micro-radians is > M_PI exactly
\* when it is >= PiMicro, and < -M_PI exactly when it is <= -PiMicro
PiMicro == 3141593

\* 2.0f * M_PI in micro-radians, rounded to the nearest
TwoPiMicro == 6283185

\* 1.0 as a duty fraction, in units of 1e-7
DutyOne == 10000000

(***************************************************************************)
(* The state after start-up: main() of control_main.c has created the      *)
(* target mutex and started the control thread, rpmsg_motor_init() has     *)
(* run odometry_init(), no command has been received yet.                  *)
(***************************************************************************)
EncoderFresh ==
    /\ encoder_count = [m \in Wheels |-> U32(0)]
    /\ start_count = encoder_count
    /\ encoder_has_rising = [m \in Wheels |-> FALSE]
    /\ edges = [m \in Wheels |-> <<>>]

TargetInit ==
    /\ motor1_target_dir = 0
    /\ motor2_target_dir = 0
    /\ motor1_target_speed = 0
    /\ motor2_target_speed = 0
    /\ target_mutex = "none"
    /\ last_write = <<0, 0, 0, 0>>
    /\ prev_write = <<0, 0, 0, 0>>

\* the control thread at the top of its loop
ChassisTop ==
    [pc |-> "take", dir1 |-> 0, dir2 |-> 0, target_speed1 |-> 0,
     target_speed2 |-> 0]

ChassisInit == chassis = ChassisTop

\* motors_gpio_init() leaves both bridges coasting; motor<m>_pwm_init() has
\* found its device, set pulse 0 and raised its flag
ActuatorInit ==
    /\ motor_pins = [m \in Wheels |-> "coast"]
    /\ pwm_pulse = [m \in Wheels |-> 0]
    /\ motor_pwm_initialized = [m \in Wheels |-> TRUE]

\* as ActuatorInit, when motor1_pwm_init() or motor2_pwm_init() may have
\* failed: main() goes on whatever motors_pwm_init() returns
ActuatorAnyPwm ==
    /\ motor_pins = [m \in Wheels |-> "coast"]
    /\ pwm_pulse = [m \in Wheels |-> 0]
    /\ motor_pwm_initialized \in [Wheels -> BOOLEAN]

\* the shell between two commands; ret is what the last command returned
ShellIdle ==
    [pc |-> "idle", cmd |-> "none", arg |-> <<>>, dir1 |-> 0, speed1 |-> 0,
     dir2 |-> 0, speed2 |-> 0, ret |-> 0]

ShellInit == shell = ShellIdle

RpmsgIdle ==
    [pc |-> "idle", recv_str |-> <<>>, dir1 |-> 0, speed1 |-> 0, dir2 |-> 0,
     speed2 |-> 0]

RpmsgInit ==
    /\ rpmsg = RpmsgIdle
    /\ rpmsg_log = "none"
    /\ new_protocol_enabled = FALSE
    /\ target_linear_vel = 0
    /\ target_angular_vel = 0

OdomZero == [x |-> 0, y |-> 0, theta |-> 0, v |-> 0, w |-> 0, timestamp_ms |-> 0]

\* odometry_init
OdometryInit ==
    /\ odom_config = [wheel_radius |-> 0, wheel_base |-> 0,
                      gear_ratio |-> MOTOR1_REDUCTION_RATIO * 1000,
                      encoder_ppr |-> MOTOR1_ENCODER_PPR * 1000]
    /\ odom_state = OdomZero
    /\ odom_configured = FALSE
    /\ rt_tick = 0
    /\ odom_updates = 0

\* the sampling thread at the top of a round, having last read the tick t;
\* current is the local of encoder<m>_get_delta, delta[m] is delta<m>
SamplerTop(t) ==
    [pc |-> "load1", current |-> U32(0), delta |-> [m \in Wheels |-> U32(0)],
     elapsed_ms |-> 0, last_tick |-> t]

\* encoder_print_thread_entry has read the tick and is about to take its
\* first sample; nothing has been published
SampleInit ==
    /\ encoder_last_count = encoder_count
    /\ sampler = SamplerTop(0)
    /\ shared_speed = [m \in Wheels |-> 0]
    /\ shared_delta = [m \in Wheels |-> U32(0)]
    /\ sample_log = [samples   |-> 0,
                     loaded_at |-> [m \in Wheels |-> 0],
                     last_at   |-> [m \in Wheels |-> 0],
                     total     |-> [m \in Wheels |-> 0],
                     tick_before |-> 0]

\* a telemetry frame that has not been built
NoFrame == [kind |-> "none", odom |-> OdomZero]

\* the feedback thread at the top of its loop
\* sends counts the calls of rpmsg_send made in the round
FeedbackTop == [pc |-> "ready", frame |-> NoFrame, sends |-> 0]

\* rpmsg_motor_init: the endpoint is not created yet, feedback is on at the
\* default interval, nothing has been handed to rpmsg_send
FeedbackInit ==
    /\ endpoint_ready = FALSE
    /\ feedback_enabled = TRUE
    /\ feedback_interval_ms = DEFAULT_FEEDBACK_INTERVAL_MS
    /\ feedback = FeedbackTop
    /\ telemetry = [frame |-> NoFrame, ret |-> 0, log |-> "none"]

\* the threads that call the odometry API: the endpoint callback, the shell,
\* the feedback thread, and the caller of odometry_update
OdoCallers == {"rpmsg", "shell", "feedback", "updater"}

\* a thread outside the odometry API; state is the OdometryState that
\* odometry_get_state fills for its caller
OdoIdle ==
    [pc |-> "idle", op |-> "none", v |-> 0, w |-> 0, dt |-> 0, theta_mid |-> 0,
     config |-> [wheel_radius |-> 0, wheel_base |-> 0, gear_ratio |-> 0,
                 encoder_ppr |-> 0],
     state |-> OdomZero]

\* odometry_init has created odom_mutex and made its reset
OdoInit ==
    odo = [mutex |-> "none", call |-> [t \in OdoCallers |-> OdoIdle],
           done |-> {OdomZero}, calls |-> 0]

\* main() and rpmsg_motor_init() have returned with every mutex created and
\* every thread started
BootDone ==
    [main_pc  |-> "returned", main_ret |-> 0,
     init_pc  |-> "returned", init_ret |-> "RT_EOK",
     mutex    |-> [n \in {"target", "odom", "vel"} |-> "created"],
     thread   |-> [n \in {"enc_print", "chassis", "rpmsg_mi", "rpmsg_fb"}
                     |-> "started"]]

BootInit == boot = BootDone

(***************************************************************************)
(* Encoder (src/src/encoder.c).                                            *)
(***************************************************************************)
\* a counter value the program can be at when observation starts: fresh after
\* encoder<m>_init, or two pulses short of wrapping
EncoderStartCounts == {U32(0), <<Limb - 1, Limb - 2>>}

EncoderInit ==
    /\ encoder_count \in [Wheels -> EncoderStartCounts]
    /\ start_count = encoder_count
    /\ encoder_has_rising = [m \in Wheels |-> FALSE]
    /\ edges = [m \in Wheels |-> <<>>]

\* plausible bug: every falling edge counts, latched or not
EncoderIrqBody_NoLatch(m, level) ==
    /\ Len(edges[m]) < MaxEdges
    /\ edges' = [edges EXCEPT ![m] = Append(@, level)]
    /\ IF level = 1
       THEN /\ encoder_has_rising' = [encoder_has_rising EXCEPT ![m] = TRUE]
            /\ UNCHANGED encoder_count
       ELSE /\ encoder_count' = [encoder_count EXCEPT ![m] = U32Inc(@)]
            /\ encoder_has_rising' = [encoder_has_rising EXCEPT ![m] = FALSE]
    /\ UNCHANGED start_count

\* the body shared by both callbacks, on wheel m with rt_pin_read() = level
EncoderIrqBody(m, level) ==
    /\ Len(edges[m]) < MaxEdges
    /\ edges' = [edges EXCEPT ![m] = Append(@, level)]
    /\ IF level = 1
       THEN /\ encoder_has_rising' = [encoder_has_rising EXCEPT ![m] = TRUE]
            /\ UNCHANGED encoder_count
       ELSE IF encoder_has_rising[m]
            THEN /\ encoder_count' = [encoder_count EXCEPT ![m] = U32Inc(@)]
                 /\ encoder_has_rising' = [encoder_has_rising EXCEPT ![m] = FALSE]
            ELSE UNCHANGED <<encoder_count, encoder_has_rising>>
    /\ UNCHANGED start_count

encoder1_a_irq_callback(level) ==
    /\ EncoderIrqBody(1, level)
    /\ UNCHANGED <<estVars, fbVars, pulse_test, odo, boot, targetVars, chassis,
                   actVars, shell, rpmsgVars, odomVars>>

encoder2_a_irq_callback(level) ==
    /\ EncoderIrqBody(2, level)
    /\ UNCHANGED <<estVars, fbVars, pulse_test, odo, boot, targetVars, chassis,
                   actVars, shell, rpmsgVars, odomVars>>

\* the pulse-count test after pulse_gpio_init: counters 0, the print thread
\* about to call pulse_get_delta, no pulse_reset running
PulseTestInit ==
    pulse_test = [count |-> U32(0), last_count |-> U32(0), has_rising |-> FALSE,
                  pc |-> "load", current |-> U32(0), delta |-> U32(0),
                  reset_pc |-> "idle", edges |-> 0, since |-> 0, window |-> 0]

(***************************************************************************)
(* Feedforward model (src/src/motor_model.c) and actuation                 *)
(* (src/src/motor_control.c, src/src/motor_pwm.c).                         *)
(***************************************************************************)
\* k * speed + b with k, b in units of 1e-4 and speed in thousandths: a duty
\* in units of 1e-7
LinearFit(k, b, speed) == k * speed + b * 1000

motor1_model(dir, speed) ==
    IF dir = 0 THEN 0
    ELSE IF dir = 1 THEN LinearFit(2781, 233, speed)
    ELSE LinearFit(2549, 306, speed)

motor2_model(dir, speed) ==
    IF dir = 0 THEN 0
    ELSE IF dir = 1 THEN LinearFit(2542, 612, speed)
    ELSE LinearFit(2829, 359, speed)

\* a limit that would only cut the duty off at 1.0
ClampDuty_UpperOnly(duty) == IF duty > DutyOne THEN DutyOne ELSE duty

\* lines 85-88 of the control loop: the duty limited to [0.0, 1.0]
ClampDuty(duty) == IF duty < 0 THEN 0 ELSE IF duty > DutyOne THEN DutyOne ELSE duty

\* the float duty handed to a rt_uint8_t parameter: C converts by dropping the
\* fraction (defined for values in [0, 256), which is all the model feeds it)
FloatToU8(duty) == duty \div DutyOne

\* the pulse motor<m>_set_duty computes from its duty_percent argument
DutyPulse(duty_percent) == (PWM_PERIOD * Min(duty_percent, 100)) \div 100

\* motor<m>_set_duty: the pulse after the call; an uninitialized PWM returns
\* -RT_ERROR and sets nothing
SetDuty(pulse, m, duty_percent) ==
    IF motor_pwm_initialized[m]
    THEN [pulse EXCEPT ![m] = DutyPulse(duty_percent)]
    ELSE pulse

\* a stop that would release the bridge and leave the PWM duty as it was
motor_control_StopKeepsDuty(act, m, direction, duty) ==
    IF direction = 0
    THEN [pins  |-> [act.pins EXCEPT ![m] = "coast"],
          pulse |-> act.pulse]
    ELSE IF direction = 1
    THEN [pins  |-> [act.pins EXCEPT ![m] = "forward"],
          pulse |-> SetDuty(act.pulse, m, FloatToU8(duty))]
    ELSE IF direction = 2
    THEN [pins  |-> [act.pins EXCEPT ![m] = "backward"],
          pulse |-> SetDuty(act.pulse, m, FloatToU8(duty))]
    ELSE act

\* a default branch that would stop the wheel instead of only printing
motor_control_InvalidStops(act, m, direction, duty) ==
    IF direction = 1
    THEN [pins  |-> [act.pins EXCEPT ![m] = "forward"],
          pulse |-> SetDuty(act.pulse, m, FloatToU8(duty))]
    ELSE IF direction = 2
    THEN [pins  |-> [act.pins EXCEPT ![m] = "backward"],
          pulse |-> SetDuty(act.pulse, m, FloatToU8(duty))]
    ELSE [pins  |-> [act.pins EXCEPT ![m] = "coast"],
          pulse |-> SetDuty(act.pulse, m, FloatToU8(0))]

\* motor_control(m, direction, duty) applied to the actuator state
\* act = [pins, pulse]: the pins by motor<m>_coast/forward/backward, the pulse
\* by motor<m>_set_duty; an invalid direction only prints
motor_control(act, m, direction, duty) ==
    IF direction = 0
    THEN [pins  |-> [act.pins EXCEPT ![m] = "coast"],
          pulse |-> SetDuty(act.pulse, m, FloatToU8(0))]
    ELSE IF direction = 1
    THEN [pins  |-> [act.pins EXCEPT ![m] = "forward"],
          pulse |-> SetDuty(act.pulse, m, FloatToU8(duty))]
    ELSE IF direction = 2
    THEN [pins  |-> [act.pins EXCEPT ![m] = "backward"],
          pulse |-> SetDuty(act.pulse, m, FloatToU8(duty))]
    ELSE act

Actuator == [pins |-> motor_pins, pulse |-> pwm_pulse]

(***************************************************************************)
(* The control thread (src/control_main.c, chassis_ctrl_thread_entry).     *)
(* One action per statement that touches shared state.                     *)
(***************************************************************************)
\* plausible bug: the loop copies the targets without waiting for the mutex
ChassisTake_NoWait ==
    /\ chassis.pc = "take"
    /\ chassis' = [chassis EXCEPT !.pc = "copy_dir1"]
    /\ UNCHANGED <<encVars, estVars, fbVars, pulse_test, odo, boot, targetVars,
                   actVars, shell, rpmsgVars, odomVars>>

\* rt_mutex_take(target_mutex, RT_WAITING_FOREVER)
ChassisTake ==
    /\ chassis.pc = "take"
    /\ target_mutex = "none"
    /\ target_mutex' = "chassis"
    /\ chassis' = [chassis EXCEPT !.pc = "copy_dir1"]
    /\ UNCHANGED <<encVars, estVars, fbVars, pulse_test, odo, boot, targetVals,
                   actVars, shell, rpmsgVars, odomVars>>

\* dir1 = motor1_target_dir; dir2 = ...; target_speed1 = ...; target_speed2 = ...
ChassisCopy ==
    /\ chassis.pc \in {"copy_dir1", "copy_dir2", "copy_speed1", "copy_speed2"}
    /\ chassis' =
         IF chassis.pc = "copy_dir1"
         THEN [chassis EXCEPT !.dir1 = motor1_target_dir, !.pc = "copy_dir2"]
         ELSE IF chassis.pc = "copy_dir2"
         THEN [chassis EXCEPT !.dir2 = motor2_target_dir, !.pc = "copy_speed1"]
         ELSE IF chassis.pc = "copy_speed1"
         THEN [chassis EXCEPT !.target_speed1 = motor1_target_speed,
                              !.pc = "copy_speed2"]
         ELSE [chassis EXCEPT !.target_speed2 = motor2_target_speed,
                              !.pc = "release"]
    /\ UNCHANGED <<encVars, estVars, fbVars, pulse_test, odo, boot, targetVars,
                   actVars, shell, rpmsgVars, odomVars>>

\* rt_mutex_release(target_mutex)
ChassisRelease ==
    /\ chassis.pc = "release"
    /\ target_mutex' = IF target_mutex = "chassis" THEN "none" ELSE target_mutex
    /\ chassis' = [chassis EXCEPT !.pc = "control1"]
    /\ UNCHANGED <<encVars, estVars, fbVars, pulse_test, odo, boot, targetVals,
                   actVars, shell, rpmsgVars, odomVars>>

\* a round that would hand the model's duty on without limiting it
ChassisDuty1_Unclamped == motor1_model(chassis.dir1, chassis.target_speed1)

\* duty1 and duty2 of one round: the feedforward duty of the copied target,
\* limited to [0.0, 1.0].  Both are functions of the copies alone.
ChassisDuty1 == ClampDuty(motor1_model(chassis.dir1, chassis.target_speed1))

ChassisDuty2 == ClampDuty(motor2_model(chassis.dir2, chassis.target_speed2))

\* a loop that would give up when motor1_set_duty has returned an error
ChassisControl1_ExitOnError ==
    /\ chassis.pc = "control1"
    /\ LET act == motor_control(Actuator, 1, chassis.dir1, ChassisDuty1)
       IN  /\ motor_pins' = act.pins
           /\ pwm_pulse' = act.pulse
    /\ chassis' = [chassis EXCEPT
                     !.pc = IF motor_pwm_initialized[1] THEN "control2"
                            ELSE "exited"]
    /\ UNCHANGED <<encVars, estVars, fbVars, pulse_test, odo, boot, targetVars,
                   motor_pwm_initialized, shell, rpmsgVars, odomVars>>

\* motor_control(1, dir1, duty1)
ChassisControl1 ==
    /\ chassis.pc = "control1"
    /\ LET act == motor_control(Actuator, 1, chassis.dir1, ChassisDuty1)
       IN  /\ motor_pins' = act.pins
           /\ pwm_pulse' = act.pulse
    /\ chassis' = [chassis EXCEPT !.pc = "control2"]
    /\ UNCHANGED <<encVars, estVars, fbVars, pulse_test, odo, boot, targetVars,
                   motor_pwm_initialized, shell, rpmsgVars, odomVars>>

\* motor_control(2, dir2, duty2) and the debug print
ChassisControl2 ==
    /\ chassis.pc = "control2"
    /\ LET act == motor_control(Actuator, 2, chassis.dir2, ChassisDuty2)
       IN  /\ motor_pins' = act.pins
           /\ pwm_pulse' = act.pulse
    /\ chassis' = [chassis EXCEPT !.pc = "sleep"]
    /\ UNCHANGED <<encVars, estVars, fbVars, pulse_test, odo, boot, targetVars,
                   motor_pwm_initialized, shell, rpmsgVars, odomVars>>

\* rt_thread_mdelay(33), then the next round of while (1), which overwrites
\* all four copies before it reads any
ChassisSleep ==
    /\ chassis.pc = "sleep"
    /\ chassis' = ChassisTop
    /\ UNCHANGED <<encVars, estVars, fbVars, pulse_test, odo, boot, targetVars,
                   actVars, shell, rpmsgVars, odomVars>>

(***************************************************************************)
(* Shell commands (src/control_main.c, src/src/motor_control.c).  The      *)
(* shell runs one command at a time.                                       *)
(***************************************************************************)
\* cmd_speed up to its rt_mutex_take: the argument parsed into the locals; a
\* half that does not parse returns -1 before the mutex is touched
CmdSpeedParse(arg) ==
    /\ shell.pc = "idle"
    /\ LET l == CmdSpeedLocals(arg)
       IN  shell' = IF l.ok
                    THEN [pc |-> "speed_take", cmd |-> "speed", arg |-> arg,
                          dir1 |-> l.dir1, speed1 |-> l.speed1,
                          dir2 |-> l.dir2, speed2 |-> l.speed2, ret |-> 0]
                    ELSE [ShellIdle EXCEPT !.ret = -1]
    /\ UNCHANGED <<encVars, estVars, fbVars, pulse_test, odo, boot, targetVars,
                   chassis, actVars, rpmsgVars, odomVars>>

\* cmd_chassis_stop up to its rt_mutex_take
CmdChassisStopStart ==
    /\ shell.pc = "idle"
    /\ shell' = [pc |-> "stop_take", cmd |-> "stop", arg |-> <<>>, dir1 |-> 0,
                 speed1 |-> 0, dir2 |-> 0, speed2 |-> 0, ret |-> 0]
    /\ UNCHANGED <<encVars, estVars, fbVars, pulse_test, odo, boot, targetVars,
                   chassis, actVars, rpmsgVars, odomVars>>

\* rt_mutex_take(target_mutex, RT_WAITING_FOREVER) of either command
ShellTake ==
    /\ shell.pc \in {"speed_take", "stop_take"}
    /\ target_mutex = "none"
    /\ target_mutex' = "shell"
    /\ shell' = [shell EXCEPT !.pc = IF shell.pc = "speed_take"
                                     THEN "speed_dir1" ELSE "stop_dir1"]
    /\ UNCHANGED <<encVars, estVars, fbVars, pulse_test, odo, boot, targetVals,
                   chassis, actVars, rpmsgVars, odomVars>>

\* the four stores of cmd_speed, in the order of the code
CmdSpeedStore ==
    /\ shell.pc \in {"speed_dir1", "speed_dir2", "speed_speed1", "speed_speed2"}
    /\ IF shell.pc = "speed_dir1"
       THEN /\ motor1_target_dir' = shell.dir1
            /\ prev_write' = <<motor1_target_dir, motor1_target_speed,
                               motor2_target_dir, motor2_target_speed>>
            /\ shell' = [shell EXCEPT !.pc = "speed_dir2"]
            /\ UNCHANGED <<motor2_target_dir, motor1_target_speed,
                           motor2_target_speed, last_write>>
       ELSE IF shell.pc = "speed_dir2"
       THEN /\ motor2_target_dir' = shell.dir2
            /\ shell' = [shell EXCEPT !.pc = "speed_speed1"]
            /\ UNCHANGED <<motor1_target_dir, motor1_target_speed,
                           motor2_target_speed, last_write, prev_write>>
       ELSE IF shell.pc = "speed_speed1"
       THEN /\ motor1_target_speed' = shell.speed1
            /\ shell' = [shell EXCEPT !.pc = "speed_speed2"]
            /\ UNCHANGED <<motor1_target_dir, motor2_target_dir,
                           motor2_target_speed, last_write, prev_write>>
       ELSE /\ motor2_target_speed' = shell.speed2
            /\ last_write' = <<shell.dir1, shell.speed1, shell.dir2, shell.speed2>>
            /\ shell' = [shell EXCEPT !.pc = "release"]
            /\ UNCHANGED <<motor1_target_dir, motor2_target_dir,
                           motor1_target_speed, prev_write>>
    /\ UNCHANGED <<encVars, estVars, fbVars, pulse_test, odo, boot,
                   target_mutex, chassis, actVars, rpmsgVars, odomVars>>

\* the four stores of cmd_chassis_stop
CmdChassisStopStore ==
    /\ shell.pc \in {"stop_dir1", "stop_dir2", "stop_speed1", "stop_speed2"}
    /\ IF shell.pc = "stop_dir1"
       THEN /\ motor1_target_dir' = 0
            /\ prev_write' = <<motor1_target_dir, motor1_target_speed,
                               motor2_target_dir, motor2_target_speed>>
            /\ shell' = [shell EXCEPT !.pc = "stop_dir2"]
            /\ UNCHANGED <<motor2_target_dir, motor1_target_speed,
                           motor2_target_speed, last_write>>
       ELSE IF shell.pc = "stop_dir2"
       THEN /\ motor2_target_dir' = 0
            /\ shell' = [shell EXCEPT !.pc = "stop_speed1"]
            /\ UNCHANGED <<motor1_target_dir, motor1_target_speed,
                           motor2_target_speed, last_write, prev_write>>
       ELSE IF shell.pc = "stop_speed1"
       THEN /\ motor1_target_speed' = 0
            /\ shell' = [shell EXCEPT !.pc = "stop_speed2"]
            /\ UNCHANGED <<motor1_target_dir, motor2_target_dir,
                           motor2_target_speed, last_write, prev_write>>
       ELSE /\ motor2_target_speed' = 0
            /\ last_write' = <<0, 0, 0, 0>>
            /\ shell' = [shell EXCEPT !.pc = "release"]
            /\ UNCHANGED <<motor1_target_dir, motor2_target_dir,
                           motor1_target_speed, prev_write>>
    /\ UNCHANGED <<encVars, estVars, fbVars, pulse_test, odo, boot,
                   target_mutex, chassis, actVars, rpmsgVars, odomVars>>

\* rt_mutex_release(target_mutex), the prints, return 0
ShellRelease ==
    /\ shell.pc = "release"
    /\ target_mutex' = IF target_mutex = "shell" THEN "none" ELSE target_mutex
    /\ shell' = ShellIdle
    /\ UNCHANGED <<encVars, estVars, fbVars, pulse_test, odo, boot, targetVals,
                   chassis, actVars, rpmsgVars, odomVars>>

\* parse_motor_cmd(cmd, m) applied to the actuator state: "dir,duty" drives
\* motor m directly; an empty text or one without a comma does nothing
parse_motor_cmd(act, cmd, m) ==
    LET p == parse_speed_cmd(cmd)
    IN  IF p.ok THEN motor_control(act, m, p.dir, p.speed * (DutyOne \div 1000))
        ELSE act

\* cmd_motor: "dir1,duty1;dir2,duty2" drives both motors, "dir1,duty1" motor 1
\* only; the targets are not touched
cmd_motor(arg) ==
    /\ shell.pc = "idle"
    /\ LET buf       == Strncpy(arg, 63)
           semicolon == StrChr(buf, ";")
           act == IF semicolon # 0
                  THEN parse_motor_cmd(
                           parse_motor_cmd(Actuator, StrUntil(buf, semicolon), 1),
                           StrFrom(buf, semicolon), 2)
                  ELSE parse_motor_cmd(Actuator, buf, 1)
       IN  /\ motor_pins' = act.pins
           /\ pwm_pulse' = act.pulse
    /\ shell' = ShellIdle
    /\ UNCHANGED <<encVars, estVars, fbVars, pulse_test, odo, boot, targetVars,
                   chassis, motor_pwm_initialized, rpmsgVars, odomVars>>

\* cmd_motor_stop: motors_coast() releases both bridges, motors_stop() sets
\* both duties to 0 through motor<m>_set_duty; neither the targets nor their
\* mutex are touched.  shell.cmd keeps "motor_stop" until the shell runs its
\* next command (history)
cmd_motor_stop ==
    /\ shell.pc = "idle"
    /\ motor_pins' = [m \in Wheels |-> "coast"]
    /\ pwm_pulse' = SetDuty(SetDuty(pwm_pulse, 1, 0), 2, 0)
    /\ shell' = [ShellIdle EXCEPT !.cmd = "motor_stop"]
    /\ UNCHANGED <<encVars, estVars, fbVars, pulse_test, odo, boot, targetVars,
                   chassis, motor_pwm_initialized, rpmsgVars, odomVars>>

(***************************************************************************)
(* Odometry (src/src/odometry.c).                                          *)
(***************************************************************************)
\* a single correction by 2 pi in place of each loop
normalize_angle_Once(angle) ==
    IF angle >= PiMicro THEN angle - TwoPiMicro
    ELSE IF angle <= -PiMicro THEN angle + TwoPiMicro
    ELSE angle

RECURSIVE normalize_angle(_)
\* angle in micro-radians: "while (angle > M_PI) angle -= 2 pi", then
\* "while (angle < -M_PI) angle += 2 pi".  The first loop leaves a value above
\* -M_PI and the second one a value below M_PI, so the two loops are one
\* recursion
normalize_angle(angle) ==
    IF angle >= PiMicro THEN normalize_angle(angle - TwoPiMicro)
    ELSE IF angle <= -PiMicro THEN normalize_angle(angle + TwoPiMicro)
    ELSE angle

RECURSIVE TaylorSum(_, _, _, _)
\* term + the following terms of the sine/cosine series, in units of 1e-4, for
\* xm milli-radians; term is the one of degree k, the sum stops after degree n
TaylorSum(term, xm, k, n) ==
    IF k > n THEN 0
    ELSE term + TaylorSum(-TruncDiv(TruncDiv(term * xm, 1000) * xm,
                                    1000 * (k + 1) * (k + 2)),
                          xm, k + 2, n)

\* cosf and sinf of an angle in micro-radians, in units of 1e-4
CosE4(angle) == TaylorSum(10000, TruncDiv(normalize_angle(angle), 1000), 0, 20)

SinE4(angle) ==
    LET xm == TruncDiv(normalize_angle(angle), 1000)
    IN  TaylorSum(xm * 10, xm, 1, 21)

\* tick * 1000 as rt_tick_t computes it: the low 32 bits of the product
TickTimes1000(tick) ==
    LET lo == (tick % Limb) * 1000
    IN  <<((tick \div Limb) * 1000 + lo \div Limb) % Limb, lo % Limb>>

\* c / d for a 32-bit c and a divisor below 2^15
U32Div(c, d) == (c[1] \div d) * Limb + ((c[1] % d) * Limb + c[2]) \div d

\* rt_tick_get() * 1000 / RT_TICK_PER_SECOND, in rt_tick_t (32 bits unsigned)
TickToMs(tick) == U32Div(TickTimes1000(tick), RT_TICK_PER_SECOND)

\* odometry_configure(&config): the four fields and the flag, under odom_mutex
odometry_configure(config) ==
    /\ odom_config' = config
    /\ odom_configured' = TRUE

\* a reset that would keep the time stamp of the last update
odometry_reset_KeepTimestamp ==
    odom_state' = [OdomZero EXCEPT !.timestamp_ms = odom_state.timestamp_ms]

\* odometry_reset: the six state fields zeroed, under odom_mutex
odometry_reset ==
    odom_state' = OdomZero

\* the state odometry_update stores for wheel speeds v_left, v_right (mm/s),
\* dt (ms) and the tick count now, given the linear speed v (mm/s) and the
\* angular speed w (mrad/s) it has computed
OdomStore(s, v, w, dt, now) ==
    LET theta_mid == s.theta + TruncDiv(w * dt, 2)
    IN  [x     |-> s.x + TruncDiv(TruncDiv(v * CosE4(theta_mid), 100) * dt, 100),
         y     |-> s.y + TruncDiv(TruncDiv(v * SinE4(theta_mid), 100) * dt, 100),
         theta |-> normalize_angle(s.theta + w * dt),
         v     |-> v,
         w     |-> w,
         timestamp_ms |-> TickToMs(now)]

\* the linear speed taken as the sum of the wheel speeds, not their mean
OdomIntegrate_NoHalf(s, v_left, v_right, dt, now) ==
    OdomStore(s, v_left + v_right,
              TruncDiv((v_right - v_left) * 1000, odom_config.wheel_base),
              dt, now)

\* the angular speed taken with the wheels exchanged
OdomIntegrate_WheelsSwapped(s, v_left, v_right, dt, now) ==
    OdomStore(s, TruncDiv(v_left + v_right, 2),
              TruncDiv((v_left - v_right) * 1000, odom_config.wheel_base),
              dt, now)

\* v = (v_left + v_right) / 2, w = (v_right - v_left) / wheel_base, and the
\* midpoint integration of the pose
OdomIntegrate(s, v_left, v_right, dt, now) ==
    OdomStore(s, TruncDiv(v_left + v_right, 2),
              TruncDiv((v_right - v_left) * 1000, odom_config.wheel_base),
              dt, now)

\* an update that would only look at the configured flag, not at dt
odometry_update_ConfiguredOnly(v_left, v_right, dt, now) ==
    /\ odom_updates < MaxOdomUpdates
    /\ rt_tick' = now
    /\ odom_updates' = odom_updates + 1
    /\ odom_state' = IF ~odom_configured THEN odom_state
                     ELSE OdomIntegrate(odom_state, v_left, v_right, dt, now)
    /\ UNCHANGED <<encVars, estVars, fbVars, pulse_test, odo, boot, targetVars,
                   chassis, actVars, shell, rpmsgVars, odom_config,
                   odom_configured>>

\* odometry_update(v_left, v_right, dt), called at tick count now: nothing
\* happens while unconfigured or for dt <= 0
odometry_update(v_left, v_right, dt, now) ==
    /\ odom_updates < MaxOdomUpdates
    /\ rt_tick' = now
    /\ odom_updates' = odom_updates + 1
    /\ odom_state' = IF ~odom_configured \/ dt <= 0 THEN odom_state
                     ELSE OdomIntegrate(odom_state, v_left, v_right, dt, now)
    /\ UNCHANGED <<encVars, estVars, fbVars, pulse_test, odo, boot, targetVars,
                   chassis, actVars, shell, rpmsgVars, odom_config,
                   odom_configured>>

\* cmd_odom_reset of the shell
cmd_odom_reset ==
    /\ shell.pc = "idle"
    /\ odometry_reset
    /\ shell' = ShellIdle
    /\ UNCHANGED <<encVars, estVars, fbVars, pulse_test, odo, boot, targetVars,
                   chassis, actVars, rpmsgVars, odom_config, odom_configured,
                   rt_tick, odom_updates>>
(***************************************************************************)
(* The sampling thread (src/src/encoder.c, encoder_print_thread_entry)     *)
(* and encoder<m>_get_delta.  The counter is shared with the interrupt,    *)
(* so its load is a step of its own.                                       *)
(***************************************************************************)
\* the position after the store of wheel m's delta
AfterStore(m) == IF m = 1 THEN "load2" ELSE "tick"

\* encoder<m>_get_delta, first statement: current = encoder<m>_count
EncoderGetDeltaLoad(m) ==
    /\ sampler.pc = (IF m = 1 THEN "load1" ELSE "load2")
    /\ m = 1 => sample_log.samples < MaxSamples
    /\ sampler' = [sampler EXCEPT !.current = encoder_count[m],
                                  !.pc = IF m = 1 THEN "store1" ELSE "store2"]
    /\ sample_log' = [sample_log EXCEPT !.loaded_at[m] = Len(edges[m])]
    /\ UNCHANGED <<encVars, encoder_last_count, shared_speed, shared_delta,
                   fbVars, pulse_test, odo, boot, targetVars, chassis, actVars,
                   shell, rpmsgVars, odomVars>>

\* a get_delta that would read the counter a second time for the store
EncoderGetDeltaStore_Reread(m) ==
    /\ sampler.pc = (IF m = 1 THEN "store1" ELSE "store2")
    /\ LET delta == U32Minus(sampler.current, encoder_last_count[m])
       IN  /\ sampler' = [sampler EXCEPT !.delta[m] = delta,
                                         !.pc = AfterStore(m)]
           /\ sample_log' =
                [sample_log EXCEPT !.last_at[m] = sample_log.loaded_at[m],
                                   !.total[m] = @ + U32Val(delta)]
    /\ encoder_last_count' = [encoder_last_count EXCEPT ![m] = encoder_count[m]]
    /\ UNCHANGED <<encVars, shared_speed, shared_delta, fbVars, pulse_test,
                   odo, boot, targetVars, chassis, actVars, shell, rpmsgVars,
                   odomVars>>

\* encoder<m>_get_delta, the rest: delta = current - encoder<m>_last_count;
\* encoder<m>_last_count = current; return delta
EncoderGetDeltaStore(m) ==
    /\ sampler.pc = (IF m = 1 THEN "store1" ELSE "store2")
    /\ LET delta == U32Minus(sampler.current, encoder_last_count[m])
       IN  /\ sampler' = [sampler EXCEPT !.delta[m] = delta,
                                         !.pc = AfterStore(m)]
           /\ sample_log' =
                [sample_log EXCEPT !.last_at[m] = sample_log.loaded_at[m],
                                   !.total[m] = @ + U32Val(delta)]
    /\ encoder_last_count' = [encoder_last_count EXCEPT ![m] = sampler.current]
    /\ UNCHANGED <<encVars, shared_speed, shared_delta, fbVars, pulse_test,
                   odo, boot, targetVars, chassis, actVars, shell, rpmsgVars,
                   odomVars>>

\* now = rt_tick_get() after `ticks` more ticks;
\* elapsed_ms = (now - last_tick) * 1000 / RT_TICK_PER_SECOND; last_tick = now
EncoderSampleTick(ticks) ==
    /\ sampler.pc = "tick"
    /\ LET now == rt_tick + ticks
       IN  /\ rt_tick' = now
           /\ sampler' =
                [sampler EXCEPT
                   !.elapsed_ms = ((now - sampler.last_tick) * 1000)
                                      \div RT_TICK_PER_SECOND,
                   !.last_tick = now,
                   !.pc = "publish"]
    /\ sample_log' = [sample_log EXCEPT !.tick_before = sampler.last_tick]
    /\ UNCHANGED <<encVars, encoder_last_count, shared_speed, shared_delta,
                   fbVars, pulse_test, odo, boot, targetVars, chassis, actVars,
                   shell, rpmsgVars, odom_config, odom_configured, odom_state,
                   odom_updates>>

EncoderPPR(m) == IF m = 1 THEN MOTOR1_ENCODER_PPR ELSE MOTOR2_ENCODER_PPR

ReductionRatio(m) ==
    IF m = 1 THEN MOTOR1_REDUCTION_RATIO ELSE MOTOR2_REDUCTION_RATIO

\* a speed that would be computed for the nominal period
SampleSpeed_Nominal(m, delta, elapsed_ms) ==
    (U32Val(delta) * 1000000)
        \div (EncoderPPR(m) * ReductionRatio(m) * SamplePeriodMs)

\* (float)delta * 1000.0f / (PPR * ratio * elapsed_ms), in thousandths of a
\* revolution per second
SampleSpeed(m, delta, elapsed_ms) ==
    (U32Val(delta) * 1000000)
        \div (EncoderPPR(m) * ReductionRatio(m) * elapsed_ms)

\* if (elapsed_ms > 0) both speeds are published; the deltas always are
EncoderSamplePublish ==
    /\ sampler.pc = "publish"
    /\ shared_speed' =
         IF sampler.elapsed_ms > 0
         THEN [m \in Wheels |->
                 SampleSpeed(m, sampler.delta[m], sampler.elapsed_ms)]
         ELSE shared_speed
    /\ shared_delta' = sampler.delta
    /\ sampler' = [sampler EXCEPT !.pc = "sleep"]
    /\ UNCHANGED <<encVars, encoder_last_count, sample_log, fbVars, pulse_test,
                   odo, boot, targetVars, chassis, actVars, shell, rpmsgVars,
                   odomVars>>

\* rt_thread_mdelay(period_ms), then the next round of while (1)
EncoderSampleSleep ==
    /\ sampler.pc = "sleep"
    /\ sampler' = SamplerTop(sampler.last_tick)
    /\ sample_log' = [sample_log EXCEPT !.samples = @ + 1]
    /\ UNCHANGED <<encVars, encoder_last_count, shared_speed, shared_delta,
                   fbVars, pulse_test, odo, boot, targetVars, chassis, actVars,
                   shell, rpmsgVars, odomVars>>

(***************************************************************************)
(* RPMsg endpoint (src/src/rpmsg_motor.c).                                 *)
(***************************************************************************)
\* plausible bug: the two wheels exchanged
rpmsg_motor_vel_to_wheel_speeds_Swapped(v, w) ==
    LET wheel_base == IF odom_config.wheel_base <= 0 THEN 200
                      ELSE odom_config.wheel_base
    IN  [v_left  |-> 2000 * v + w * wheel_base,
         v_right |-> 2000 * v - w * wheel_base]

\* rpmsg_motor_vel_to_wheel_speeds: the wheel speeds for v (mm/s) and
\* w (mrad/s), each in units of 1/2000 mm/s so that w * wheel_base / 2 is exact
rpmsg_motor_vel_to_wheel_speeds(v, w) ==
    LET wheel_base == IF odom_config.wheel_base <= 0 THEN 200
                      ELSE odom_config.wheel_base
    IN  [v_left  |-> 2000 * v - w * wheel_base,
         v_right |-> 2000 * v + w * wheel_base]

\* plausible bug: a default radius of 0.05 m while none is configured, as
\* rpmsg_motor_vel_to_wheel_speeds does for the wheel base
rpmsg_motor_wheel_speed_to_motor_rps_DefaultRadius(wheel_speed) ==
    LET wheel_radius == IF odom_config.wheel_radius <= 0 THEN 50
                        ELSE odom_config.wheel_radius
    IN  [num |-> wheel_speed * PiDen, den |-> 4 * PiNum * wheel_radius]

\* plausible bug: the circumference taken as pi * wheel_radius
rpmsg_motor_wheel_speed_to_motor_rps_HalfTurn(wheel_speed) ==
    IF odom_config.wheel_radius <= 0
    THEN [num |-> 0, den |-> 1]
    ELSE [num |-> wheel_speed * PiDen,
          den |-> 2 * PiNum * odom_config.wheel_radius]

\* rpmsg_motor_wheel_speed_to_motor_rps: wheel_speed / (2 pi wheel_radius) as
\* the exact fraction num / den of thousandths of rev/s, for a wheel speed in
\* 1/2000 mm/s; 0 while no wheel radius is configured
rpmsg_motor_wheel_speed_to_motor_rps(wheel_speed) ==
    IF odom_config.wheel_radius <= 0
    THEN [num |-> 0, den |-> 1]
    ELSE [num |-> wheel_speed * PiDen,
          den |-> 4 * PiNum * odom_config.wheel_radius]

\* a direction test that would know no dead band: 0 counted as forward
VelDir_NoStop(rps) == IF rps.num >= 0 THEN 1 ELSE 2

\* the direction of lines 315-316: 1 above 0.001 rev/s, 2 below -0.001, else 0
VelDir(rps) ==
    IF rps.num > rps.den THEN 1 ELSE IF rps.num < -rps.den THEN 2 ELSE 0

\* fabsf(rps) as it is stored, in thousandths of rev/s
VelSpeed(rps) == Abs(rps.num) \div rps.den

\* what the VEL branch passes to chassis_set_target for the text after "VEL:"
VelTargets(vel_data) ==
    LET p   == parse_vel_command(vel_data)
        ws  == rpmsg_motor_vel_to_wheel_speeds(p.v, p.w)
        rl  == rpmsg_motor_wheel_speed_to_motor_rps(ws.v_left)
        rr  == rpmsg_motor_wheel_speed_to_motor_rps(ws.v_right)
    IN  [dir1 |-> VelDir(rl), speed1 |-> VelSpeed(rl),
         dir2 |-> VelDir(rr), speed2 |-> VelSpeed(rr)]

\* rpmsg_motor_endpoint_cb(recv_str): the dispatch on the prefix.  The CFG and
\* RST branches run to their end; the VEL and legacy branches run up to their
\* call of chassis_set_target
rpmsg_motor_endpoint_cb(recv_str) ==
    /\ rpmsg.pc = "idle"
    /\ IF HasPrefix(recv_str, CMD_PREFIX_CFG)
       THEN LET cfg == CfgLocals(StrFrom(recv_str, Len(CMD_PREFIX_CFG)))
            IN  IF CfgAccepted(cfg)
                THEN /\ odometry_configure(cfg)
                     /\ new_protocol_enabled' = TRUE
                     /\ rpmsg_log' = "cfg_applied"
                     /\ UNCHANGED <<rpmsg, target_linear_vel, target_angular_vel,
                                    odom_state>>
                ELSE /\ rpmsg_log' = "cfg_error"
                     /\ UNCHANGED <<rpmsg, new_protocol_enabled, target_linear_vel,
                                    target_angular_vel, odom_config,
                                    odom_configured, odom_state>>
       ELSE IF HasPrefix(recv_str, CMD_PREFIX_VEL)
       THEN LET vel_data == StrFrom(recv_str, Len(CMD_PREFIX_VEL))
                p == parse_vel_command(vel_data)
                t == VelTargets(vel_data)
            IN  /\ target_linear_vel' = p.v
                /\ target_angular_vel' = p.w
                /\ rpmsg_log' = "vel"
                /\ rpmsg' = [pc |-> "set_take", recv_str |-> recv_str,
                             dir1 |-> t.dir1, speed1 |-> t.speed1,
                             dir2 |-> t.dir2, speed2 |-> t.speed2]
                /\ UNCHANGED <<new_protocol_enabled, odom_config,
                               odom_configured, odom_state>>
       ELSE IF HasPrefix(recv_str, CMD_PREFIX_RST)
       THEN /\ odometry_reset
            /\ rpmsg_log' = "rst"
            /\ UNCHANGED <<rpmsg, new_protocol_enabled, target_linear_vel,
                           target_angular_vel, odom_config, odom_configured>>
       ELSE LET l == parse_legacy_speed_command(recv_str)
            IN  /\ IF l.ok
                   THEN /\ rpmsg_log' = "legacy"
                        /\ rpmsg' = [pc |-> "set_take", recv_str |-> recv_str,
                                     dir1 |-> l.dir1, speed1 |-> l.speed1,
                                     dir2 |-> l.dir2, speed2 |-> l.speed2]
                   ELSE /\ rpmsg_log' = "unknown"
                        /\ UNCHANGED rpmsg
                /\ UNCHANGED <<new_protocol_enabled, target_linear_vel,
                               target_angular_vel, odom_config, odom_configured,
                               odom_state>>
    /\ UNCHANGED <<encVars, estVars, fbVars, pulse_test, odo, boot, targetVars,
                   chassis, actVars, shell, rt_tick, odom_updates>>

(***************************************************************************)
(* chassis_set_target(dir1, speed1, dir2, speed2).  rpmsg_motor.h declares *)
(* it as implemented by control_main.c; that implementation is not among   *)
(* the sources.  It is modelled as the store of all four targets under     *)
(* target_mutex.                                                           *)
(***************************************************************************)
ChassisSetTargetTake ==
    /\ rpmsg.pc = "set_take"
    /\ target_mutex = "none"
    /\ target_mutex' = "rpmsg"
    /\ rpmsg' = [rpmsg EXCEPT !.pc = "set_store"]
    /\ UNCHANGED <<encVars, estVars, fbVars, pulse_test, odo, boot, targetVals,
                   chassis, actVars, shell, rpmsg_log, new_protocol_enabled,
                   target_linear_vel, target_angular_vel, odomVars>>

ChassisSetTargetStore ==
    /\ rpmsg.pc = "set_store"
    /\ motor1_target_dir' = rpmsg.dir1
    /\ motor2_target_dir' = rpmsg.dir2
    /\ motor1_target_speed' = rpmsg.speed1
    /\ motor2_target_speed' = rpmsg.speed2
    /\ last_write' = <<rpmsg.dir1, rpmsg.speed1, rpmsg.dir2, rpmsg.speed2>>
    /\ prev_write' = <<motor1_target_dir, motor1_target_speed,
                       motor2_target_dir, motor2_target_speed>>
    /\ rpmsg' = [rpmsg EXCEPT !.pc = "set_release"]
    /\ UNCHANGED <<encVars, estVars, fbVars, pulse_test, odo, boot,
                   target_mutex, chassis, actVars, shell, rpmsg_log,
                   new_protocol_enabled, target_linear_vel, target_angular_vel,
                   odomVars>>

\* the release, and the return of the endpoint callback
ChassisSetTargetRelease ==
    /\ rpmsg.pc = "set_release"
    /\ target_mutex' = IF target_mutex = "rpmsg" THEN "none" ELSE target_mutex
    /\ rpmsg' = RpmsgIdle
    /\ UNCHANGED <<encVars, estVars, fbVars, pulse_test, odo, boot, targetVals,
                   chassis, actVars, shell, rpmsg_log, new_protocol_enabled,
                   target_linear_vel, target_angular_vel, odomVars>>

(***************************************************************************)
(* The host program (src/k3_src/rpmsg_motor_async.c): what it writes to    *)
(* the RPMsg device arrives at the endpoint callback.                      *)
(***************************************************************************)
DigitChar(d) ==
    CASE d = 0 -> "0" [] d = 1 -> "1" [] d = 2 -> "2" [] d = 3 -> "3"
      [] d = 4 -> "4" [] d = 5 -> "5" [] d = 6 -> "6" [] d = 7 -> "7"
      [] d = 8 -> "8" [] d = 9 -> "9"

RECURSIVE DecText(_)
\* the decimal digits of a natural number
DecText(n) ==
    IF n < 10 THEN <<DigitChar(n)>> ELSE DecText(n \div 10) \o <<DigitChar(n % 10)>>

\* printf's "%.3f" of a value given in thousandths
Fixed3(x) ==
    LET a == Abs(x)
        f == a % 1000
    IN  (IF x < 0 THEN <<"-">> ELSE <<>>) \o DecText(a \div 1000) \o <<".">>
        \o <<DigitChar(f \div 100), DigitChar((f \div 10) % 10), DigitChar(f % 10)>>

\* send_vel_command(v, w): the text "VEL:%.3f,%.3f" it writes
send_vel_command(v, w) == CMD_PREFIX_VEL \o Fixed3(v) \o <<",">> \o Fixed3(w)

\* the input line "stop": send_vel_command(0.0, 0.0)
HostStop == rpmsg_motor_endpoint_cb(send_vel_command(0, 0))

\* the input line "vel v w"
HostVel(v, w) == rpmsg_motor_endpoint_cb(send_vel_command(v, w))

(***************************************************************************)
(* The feedback thread (src/src/rpmsg_motor.c, feedback_thread_entry),     *)
(* the endpoint's creation and unbinding, and the shell's                  *)
(* cmd_rpmsg_feedback.                                                     *)
(***************************************************************************)
\* rpmsg_motor_init_thread_entry, once rpmsg_create_ept has succeeded
EndpointCreate ==
    /\ ~endpoint_ready
    /\ endpoint_ready' = TRUE
    /\ UNCHANGED <<encVars, estVars, pulse_test, odo, boot, feedback_enabled,
                   feedback_interval_ms, feedback, telemetry, targetVars,
                   chassis, actVars, shell, rpmsgVars, odomVars>>

rpmsg_motor_service_unbind ==
    /\ endpoint_ready
    /\ endpoint_ready' = FALSE
    /\ UNCHANGED <<encVars, estVars, pulse_test, odo, boot, feedback_enabled,
                   feedback_interval_ms, feedback, telemetry, targetVars,
                   chassis, actVars, shell, rpmsgVars, odomVars>>

\* a setter that would store the request as it is
FeedbackIntervalFor_NoFloor(ms) == ms

\* rpmsg_motor_set_feedback_interval: the interval stored for ms
FeedbackIntervalFor(ms) == IF ms < 10 THEN 10 ELSE ms

\* the arguments "on" and "off" of cmd_rpmsg_feedback
ARG_ON == <<"o", "n">>

ARG_OFF == <<"o", "f", "f">>

\* cmd_rpmsg_feedback with one argument: "on", "off", or an interval that is
\* stored when atoi() finds it positive
cmd_rpmsg_feedback(arg) ==
    /\ shell.pc = "idle"
    /\ feedback_enabled' = IF arg = ARG_ON THEN TRUE
                           ELSE IF arg = ARG_OFF THEN FALSE
                           ELSE feedback_enabled
    /\ feedback_interval_ms' =
         IF arg # ARG_ON /\ arg # ARG_OFF /\ AtoI(arg) > 0
         THEN FeedbackIntervalFor(AtoI(arg))
         ELSE feedback_interval_ms
    /\ shell' = ShellIdle
    /\ UNCHANGED <<encVars, estVars, pulse_test, odo, boot, endpoint_ready,
                   feedback, telemetry, targetVars, chassis, actVars,
                   rpmsgVars, odomVars>>

\* if (!motor_ctx.endpoint_ready) { rt_thread_mdelay(100); continue; }
FeedbackCheckReady ==
    /\ feedback.pc = "ready"
    /\ feedback' = [feedback EXCEPT
                      !.pc = IF endpoint_ready THEN "enabled" ELSE "ready"]
    /\ UNCHANGED <<encVars, estVars, pulse_test, odo, boot, endpoint_ready,
                   feedback_enabled, feedback_interval_ms, telemetry,
                   targetVars, chassis, actVars, shell, rpmsgVars, odomVars>>

\* if (feedback_enabled) { ... }
FeedbackCheckEnabled ==
    /\ feedback.pc = "enabled"
    /\ feedback' = [feedback EXCEPT
                      !.pc = IF feedback_enabled THEN "build" ELSE "sleep"]
    /\ UNCHANGED <<encVars, estVars, pulse_test, odo, boot, endpoint_ready,
                   feedback_enabled, feedback_interval_ms, telemetry,
                   targetVars, chassis, actVars, shell, rpmsgVars, odomVars>>

\* a firmware that would only know the status frame
FeedbackFrame_LegacyOnly == [kind |-> "legacy", odom |-> OdomZero]

\* a sender that would fall back to the status frame while the pose is zero
FeedbackFrame_StatusWhileAtOrigin ==
    IF new_protocol_enabled /\ odom_configured /\ odom_state # OdomZero
    THEN [kind |-> "ODM", odom |-> odom_state]
    ELSE [kind |-> "legacy", odom |-> OdomZero]

\* the frame written to feedback_buf: "ODM:..." from odometry_get_state when
\* new_protocol_enabled && odometry_is_configured(), the status frame
\* otherwise
FeedbackFrame ==
    IF new_protocol_enabled /\ odom_configured
    THEN [kind |-> "ODM", odom |-> odom_state]
    ELSE [kind |-> "legacy", odom |-> OdomZero]

FeedbackBuild ==
    /\ feedback.pc = "build"
    /\ feedback' = [feedback EXCEPT !.frame = FeedbackFrame, !.pc = "send"]
    /\ UNCHANGED <<encVars, estVars, pulse_test, odo, boot, endpoint_ready,
                   feedback_enabled, feedback_interval_ms, telemetry,
                   targetVars, chassis, actVars, shell, rpmsgVars, odomVars>>

\* a thread that would call rpmsg_send again when it has failed
FeedbackSend_Retry(ret) ==
    /\ feedback.pc = "send"
    /\ telemetry' = [frame |-> feedback.frame, ret |-> ret,
                     log |-> IF ret < 0 THEN "send_failed" ELSE "none"]
    /\ feedback' = [feedback EXCEPT
                      !.pc = IF ret < 0 /\ feedback.sends < 2 THEN "send"
                             ELSE "sleep",
                      !.sends = @ + 1]
    /\ UNCHANGED <<encVars, estVars, pulse_test, odo, boot, endpoint_ready,
                   feedback_enabled, feedback_interval_ms, targetVars, chassis,
                   actVars, shell, rpmsgVars, odomVars>>

\* rpmsg_send(&motor_ctx.endp, feedback_buf, ...) returning ret; a negative
\* ret is printed and nothing else is done about it: the thread goes on to
\* its delay
FeedbackSend(ret) ==
    /\ feedback.pc = "send"
    /\ telemetry' = [frame |-> feedback.frame, ret |-> ret,
                     log |-> IF ret < 0 THEN "send_failed" ELSE "none"]
    /\ feedback' = [feedback EXCEPT !.pc = "sleep", !.sends = @ + 1]
    /\ UNCHANGED <<encVars, estVars, pulse_test, odo, boot, endpoint_ready,
                   feedback_enabled, feedback_interval_ms, targetVars, chassis,
                   actVars, shell, rpmsgVars, odomVars>>

\* rt_thread_mdelay(feedback_interval_ms), then the next round
FeedbackSleep ==
    /\ feedback.pc = "sleep"
    /\ feedback' = FeedbackTop
    /\ UNCHANGED <<encVars, estVars, pulse_test, odo, boot, endpoint_ready,
                   feedback_enabled, feedback_interval_ms, telemetry,
                   targetVars, chassis, actVars, shell, rpmsgVars, odomVars>>

(***************************************************************************)
(* Initialization: main() of src/control_main.c and rpmsg_motor_init() of  *)
(* src/src/rpmsg_motor.c with odometry_init() of src/src/odometry.c.       *)
(* rt_mutex_create and rt_thread_create succeed (ok) or return RT_NULL.    *)
(***************************************************************************)
\* nothing created, nothing started, neither function entered
BootFresh ==
    [main_pc  |-> "target_mutex", main_ret |-> 0,
     init_pc  |-> "vel_mutex", init_ret |-> "RT_EOK",
     mutex    |-> [n \in {"target", "odom", "vel"} |-> "none"],
     thread   |-> [n \in {"enc_print", "chassis", "rpmsg_mi", "rpmsg_fb"}
                     |-> "none"]]

\* the statics of odometry.c before odometry_init
OdometryStatic ==
    /\ odom_config = [wheel_radius |-> 0, wheel_base |-> 0, gear_ratio |-> 0,
                      encoder_ppr |-> 0]
    /\ odom_state = OdomZero
    /\ odom_configured = FALSE
    /\ rt_tick = 0
    /\ odom_updates = 0

Created(ok) == IF ok THEN "created" ELSE "failed"

Started(ok) == IF ok THEN "started" ELSE "failed"

\* main: target_mutex = rt_mutex_create(...); RT_NULL prints and returns -1;
\* otherwise the motor and encoder initialization follows
MainCreateTargetMutex(ok) ==
    /\ boot.main_pc = "target_mutex"
    /\ boot' = [boot EXCEPT !.mutex["target"] = Created(ok),
                            !.main_pc = IF ok THEN "enc_thread" ELSE "returned",
                            !.main_ret = IF ok THEN 0 ELSE -1]
    /\ UNCHANGED <<encVars, estVars, fbVars, pulse_test, odo, targetVars,
                   chassis, actVars, shell, rpmsgVars, odomVars>>

\* encoder_print_thread_start(), whose result main does not look at
encoder_print_thread_start(ok) ==
    /\ boot.main_pc = "enc_thread"
    /\ boot' = [boot EXCEPT !.thread["enc_print"] = Started(ok),
                            !.main_pc = "chassis_thread"]
    /\ UNCHANGED <<encVars, estVars, fbVars, pulse_test, odo, targetVars,
                   chassis, actVars, shell, rpmsgVars, odomVars>>

\* chassis_ctrl_thread_start(), whose result main does not look at either;
\* main then prints the usage and returns 0
chassis_ctrl_thread_start(ok) ==
    /\ boot.main_pc = "chassis_thread"
    /\ boot' = [boot EXCEPT !.thread["chassis"] = Started(ok),
                            !.main_pc = "returned",
                            !.main_ret = 0]
    /\ UNCHANGED <<encVars, estVars, fbVars, pulse_test, odo, targetVars,
                   chassis, actVars, shell, rpmsgVars, odomVars>>

\* rpmsg_motor_init: motor_ctx cleared, endpoint_ready = RT_FALSE,
\* vel_mutex = rt_mutex_create(...), not compared with RT_NULL
RpmsgInitCreateVelMutex(ok) ==
    /\ boot.init_pc = "vel_mutex"
    /\ boot' = [boot EXCEPT !.mutex["vel"] = Created(ok),
                            !.init_pc = "odometry_init"]
    /\ endpoint_ready' = FALSE
    /\ UNCHANGED <<encVars, estVars, pulse_test, odo, feedback_enabled,
                   feedback_interval_ms, feedback, telemetry, targetVars,
                   chassis, actVars, shell, rpmsgVars, odomVars>>

\* odometry_init(): without the mutex it prints and returns (it returns
\* void); with it, the default configuration, odometry_reset and the flag
odometry_init(ok) ==
    /\ boot.init_pc = "odometry_init"
    /\ boot' = [boot EXCEPT !.mutex["odom"] = Created(ok),
                            !.init_pc = "init_thread"]
    /\ IF ok
       THEN /\ odom_config' = [wheel_radius |-> 0, wheel_base |-> 0,
                               gear_ratio |-> MOTOR1_REDUCTION_RATIO * 1000,
                               encoder_ppr |-> MOTOR1_ENCODER_PPR * 1000]
            /\ odometry_reset
            /\ odom_configured' = FALSE
       ELSE UNCHANGED <<odom_config, odom_state, odom_configured>>
    /\ UNCHANGED <<encVars, estVars, fbVars, pulse_test, odo, targetVars,
                   chassis, actVars, shell, rpmsgVars, rt_tick, odom_updates>>

\* rpmsg_motor_init: the "rpmsg_mi" thread; RT_NULL returns -RT_EINVAL
RpmsgInitCreateInitThread(ok) ==
    /\ boot.init_pc = "init_thread"
    /\ boot' = [boot EXCEPT
                  !.thread["rpmsg_mi"] = Started(ok),
                  !.init_pc = IF ok THEN "feedback_thread" ELSE "returned",
                  !.init_ret = IF ok THEN "RT_EOK" ELSE "-RT_EINVAL"]
    /\ UNCHANGED <<encVars, estVars, fbVars, pulse_test, odo, targetVars,
                   chassis, actVars, shell, rpmsgVars, odomVars>>

\* rpmsg_motor_init: the "rpmsg_fb" thread; RT_NULL returns -RT_EINVAL,
\* otherwise RT_EOK
RpmsgInitCreateFeedbackThread(ok) ==
    /\ boot.init_pc = "feedback_thread"
    /\ boot' = [boot EXCEPT
                  !.thread["rpmsg_fb"] = Started(ok),
                  !.init_pc = "returned",
                  !.init_ret = IF ok THEN "RT_EOK" ELSE "-RT_EINVAL"]
    /\ UNCHANGED <<encVars, estVars, fbVars, pulse_test, odo, targetVars,
                   chassis, actVars, shell, rpmsgVars, odomVars>>

(***************************************************************************)
(* The odometry API statement by statement (src/src/odometry.c): each call *)
(* takes odom_mutex, reads or writes the fields one at a time, releases,   *)
(* and prints where the code prints.                                       *)
(***************************************************************************)
\* the calls each thread makes
OdoOps(t) ==
    IF t = "rpmsg" THEN {"configure", "reset"}
    ELSE IF t = "shell" THEN {"reset", "get_state"}
    ELSE IF t = "feedback" THEN {"get_state"}
    ELSE {"update"}

\* the positions at which a call reads or writes one field
OdoFieldSteps == {"theta_mid", "x", "y", "theta", "v", "w", "timestamp_ms",
                  "wheel_radius", "wheel_base", "gear_ratio", "encoder_ppr",
                  "flag"}

\* a call that would print before it releases the mutex
OdoAfter_PrintInside(op, pc) ==
    IF pc = "take"
    THEN IF op = "update" THEN "theta_mid"
         ELSE IF op = "configure" THEN "wheel_radius" ELSE "x"
    ELSE IF pc = "theta_mid" THEN "x"
    ELSE IF pc = "x" THEN "y"
    ELSE IF pc = "y" THEN "theta"
    ELSE IF pc = "theta" THEN "v"
    ELSE IF pc = "v" THEN "w"
    ELSE IF pc = "w" THEN "timestamp_ms"
    ELSE IF pc = "wheel_radius" THEN "wheel_base"
    ELSE IF pc = "wheel_base" THEN "gear_ratio"
    ELSE IF pc = "gear_ratio" THEN "encoder_ppr"
    ELSE IF pc = "encoder_ppr" THEN "flag"
    ELSE IF pc \in {"timestamp_ms", "flag"}
    THEN IF op \in {"reset", "configure"} THEN "print" ELSE "release"
    ELSE IF pc = "print" THEN "release"
    ELSE "idle"

\* the position that follows pc in the call op: the field statements in the
\* order of the code, rt_mutex_release, and for odometry_configure and
\* odometry_reset the rt_kprintf after it
OdoAfter(op, pc) ==
    IF pc = "take"
    THEN IF op = "update" THEN "theta_mid"
         ELSE IF op = "configure" THEN "wheel_radius" ELSE "x"
    ELSE IF pc = "theta_mid" THEN "x"
    ELSE IF pc = "x" THEN "y"
    ELSE IF pc = "y" THEN "theta"
    ELSE IF pc = "theta" THEN "v"
    ELSE IF pc = "v" THEN "w"
    ELSE IF pc = "w" THEN "timestamp_ms"
    ELSE IF pc = "wheel_radius" THEN "wheel_base"
    ELSE IF pc = "wheel_base" THEN "gear_ratio"
    ELSE IF pc = "gear_ratio" THEN "encoder_ppr"
    ELSE IF pc = "encoder_ppr" THEN "flag"
    ELSE IF pc \in {"timestamp_ms", "flag"} THEN "release"
    ELSE IF pc = "release"
    THEN IF op \in {"reset", "configure"} THEN "print" ELSE "idle"
    ELSE "idle"

\* the thread t is not inside a command or a frame of its own
OdoThreadFree(t) ==
    /\ odo.call[t].pc = "idle"
    /\ t = "shell" => shell.pc = "idle"
    /\ t = "rpmsg" => rpmsg.pc = "idle"

\* t enters odometry_configure(&config)
OdoCallConfigure(t, config) ==
    /\ "configure" \in OdoOps(t)
    /\ OdoThreadFree(t)
    /\ odo.calls < MaxOdoCalls
    /\ odo' = [odo EXCEPT !.calls = @ + 1,
                          !.call[t] = [OdoIdle EXCEPT !.pc = "take",
                                                      !.op = "configure",
                                                      !.config = config]]
    /\ UNCHANGED <<encVars, estVars, fbVars, pulse_test, boot, targetVars,
                   chassis, actVars, shell, rpmsgVars, odomVars>>

\* t enters odometry_reset() or odometry_get_state(&state)
OdoCallPlain(t, op) ==
    /\ op \in OdoOps(t) \cap {"reset", "get_state"}
    /\ OdoThreadFree(t)
    /\ odo.calls < MaxOdoCalls
    /\ odo' = [odo EXCEPT !.calls = @ + 1,
                          !.call[t] = [OdoIdle EXCEPT !.pc = "take", !.op = op]]
    /\ UNCHANGED <<encVars, estVars, fbVars, pulse_test, boot, targetVars,
                   chassis, actVars, shell, rpmsgVars, odomVars>>

\* t enters odometry_update(v_left, v_right, dt) after dt ms: the early
\* return, else v and w computed before the mutex is taken
OdoCallUpdate(t, v_left, v_right, dt) ==
    /\ "update" \in OdoOps(t)
    /\ OdoThreadFree(t)
    /\ odo.calls < MaxOdoCalls
    /\ rt_tick' = rt_tick + (IF dt > 0 THEN dt ELSE 0)
    /\ odo' = [odo EXCEPT
                 !.calls = @ + 1,
                 !.call[t] =
                     IF ~odom_configured \/ dt <= 0
                     THEN [OdoIdle EXCEPT !.op = "update"]
                     ELSE [OdoIdle EXCEPT
                             !.pc = "take", !.op = "update", !.dt = dt,
                             !.v = TruncDiv(v_left + v_right, 2),
                             !.w = TruncDiv((v_right - v_left) * 1000,
                                            odom_config.wheel_base)]]
    /\ UNCHANGED <<encVars, estVars, fbVars, pulse_test, boot, targetVars,
                   chassis, actVars, shell, rpmsgVars, odom_config,
                   odom_configured, odom_state, odom_updates>>

\* a call that would not wait for the mutex
OdoTake_NoWait(t) ==
    /\ odo.call[t].pc = "take"
    /\ odo' = [odo EXCEPT !.mutex = t,
                          !.call[t].pc = OdoAfter(odo.call[t].op, "take")]
    /\ UNCHANGED <<encVars, estVars, fbVars, pulse_test, boot, targetVars,
                   chassis, actVars, shell, rpmsgVars, odomVars>>

\* rt_mutex_take(odom_mutex, RT_WAITING_FOREVER)
OdoTake(t) ==
    /\ odo.call[t].pc = "take"
    /\ odo.mutex = "none"
    /\ odo' = [odo EXCEPT !.mutex = t,
                          !.call[t].pc = OdoAfter(odo.call[t].op, "take")]
    /\ UNCHANGED <<encVars, estVars, fbVars, pulse_test, boot, targetVars,
                   chassis, actVars, shell, rpmsgVars, odomVars>>

\* the value odometry_update writes to the field f, from the state as it is
\* when the statement runs and the locals c of the call
OdoUpdateField(c, f) ==
    IF f = "x"
    THEN odom_state.x
         + TruncDiv(TruncDiv(c.v * CosE4(c.theta_mid), 100) * c.dt, 100)
    ELSE IF f = "y"
    THEN odom_state.y
         + TruncDiv(TruncDiv(c.v * SinE4(c.theta_mid), 100) * c.dt, 100)
    ELSE IF f = "theta" THEN normalize_angle(odom_state.theta + c.w * c.dt)
    ELSE IF f = "v" THEN c.v
    ELSE IF f = "w" THEN c.w
    ELSE TickToMs(rt_tick)

\* one statement between take and release: a field of odom_state written
\* (update, reset) or copied out (get_state), theta_mid computed, a field of
\* the configuration copied in (odom_config = *config is a copy of four
\* floats, which is not one store) or the flag set
OdoStep(t) ==
    LET c  == odo.call[t]
        pc == c.pc
    IN  /\ pc \in OdoFieldSteps
        /\ IF c.op = "configure"
           THEN /\ odom_config' = IF pc = "flag" THEN odom_config
                                  ELSE [odom_config EXCEPT ![pc] = c.config[pc]]
                /\ odom_configured' = IF pc = "flag" THEN TRUE ELSE odom_configured
                /\ odo' = [odo EXCEPT !.call[t].pc = OdoAfter(c.op, pc)]
                /\ UNCHANGED odom_state
           ELSE IF c.op = "get_state"
           THEN /\ odo' = [odo EXCEPT !.call[t].pc = OdoAfter(c.op, pc),
                                      !.call[t].state[pc] = odom_state[pc]]
                /\ UNCHANGED <<odom_config, odom_configured, odom_state>>
           ELSE IF c.op = "reset"
           THEN /\ odom_state' = [odom_state EXCEPT ![pc] = 0]
                /\ odo' = [odo EXCEPT !.call[t].pc = OdoAfter(c.op, pc)]
                /\ UNCHANGED <<odom_config, odom_configured>>
           ELSE IF pc = "theta_mid"
           THEN /\ odo' = [odo EXCEPT
                             !.call[t].pc = OdoAfter(c.op, pc),
                             !.call[t].theta_mid =
                                 odom_state.theta + TruncDiv(c.w * c.dt, 2)]
                /\ UNCHANGED <<odom_config, odom_configured, odom_state>>
           ELSE /\ odom_state' = [odom_state EXCEPT ![pc] = OdoUpdateField(c, pc)]
                /\ odo' = [odo EXCEPT !.call[t].pc = OdoAfter(c.op, pc)]
                /\ UNCHANGED <<odom_config, odom_configured>>
        /\ UNCHANGED <<encVars, estVars, fbVars, pulse_test, boot, targetVars,
                       chassis, actVars, shell, rpmsgVars, rt_tick,
                       odom_updates>>

\* rt_mutex_release(odom_mutex); an update or a reset is complete
OdoRelease(t) ==
    LET c == odo.call[t]
    IN  /\ c.pc = "release"
        /\ odo' = [odo EXCEPT
                     !.mutex = IF odo.mutex = t THEN "none" ELSE odo.mutex,
                     !.done = IF c.op \in {"update", "reset"}
                              THEN @ \cup {odom_state} ELSE @,
                     !.call[t].pc = OdoAfter(c.op, "release")]
        /\ UNCHANGED <<encVars, estVars, fbVars, pulse_test, boot, targetVars,
                       chassis, actVars, shell, rpmsgVars, odomVars>>

\* rt_kprintf("[Odometry] Configured: ...") / rt_kprintf("[Odometry] Reset\n")
OdoPrint(t) ==
    /\ odo.call[t].pc = "print"
    /\ odo' = [odo EXCEPT !.call[t].pc = OdoAfter(odo.call[t].op, "print")]
    /\ UNCHANGED <<encVars, estVars, fbVars, pulse_test, boot, targetVars,
                   chassis, actVars, shell, rpmsgVars, odomVars>>

(***************************************************************************)
(* The pulse-count test program (src/encoder_main.c; the two-motor         *)
(* variant src/encoder_main_multi.c repeats the same code per motor).  The *)
(* interrupt callback runs to its end; the print thread and the shell are  *)
(* threads and take one step per access to the shared counters.            *)
(***************************************************************************)
PulseTestOthers ==
    <<encVars, estVars, fbVars, odo, boot, targetVars, chassis, actVars, shell,
      rpmsgVars, odomVars>>

\* pulse_gpio_irq_callback with the pin read as level: a rising edge followed
\* by a falling edge counts one pulse
pulse_gpio_irq_callback(level) ==
    /\ pulse_test.edges < MaxEdges
    /\ pulse_test' =
         IF level = 1
         THEN [pulse_test EXCEPT !.has_rising = TRUE, !.edges = @ + 1]
         ELSE IF pulse_test.has_rising
         THEN [pulse_test EXCEPT !.count = U32Inc(@), !.has_rising = FALSE,
                                 !.edges = @ + 1, !.since = @ + 1]
         ELSE [pulse_test EXCEPT !.edges = @ + 1]
    /\ UNCHANGED PulseTestOthers

\* pulse_get_delta: current = pulse_count.  window keeps the pulses counted
\* since the load of the previous call (history)
PulseGetDeltaLoad ==
    /\ pulse_test.pc = "load"
    /\ pulse_test' = [pulse_test EXCEPT !.current = pulse_test.count,
                                        !.window = pulse_test.since,
                                        !.since = 0, !.pc = "subtract"]
    /\ UNCHANGED PulseTestOthers

\* delta = current - pulse_last_count, in 32 bits
PulseGetDeltaSubtract ==
    /\ pulse_test.pc = "subtract"
    /\ pulse_test' = [pulse_test EXCEPT
                        !.delta = U32Minus(pulse_test.current,
                                           pulse_test.last_count),
                        !.pc = "store"]
    /\ UNCHANGED PulseTestOthers

\* pulse_last_count = current; return delta
PulseGetDeltaStore ==
    /\ pulse_test.pc = "store"
    /\ pulse_test' = [pulse_test EXCEPT !.last_count = pulse_test.current,
                                        !.pc = "print"]
    /\ UNCHANGED PulseTestOthers

\* the rest of the round of pulse_print_thread_entry: pulse_get_count, the
\* print, rt_thread_mdelay(20)
PulsePrint ==
    /\ pulse_test.pc = "print"
    /\ pulse_test' = [pulse_test EXCEPT !.pc = "load"]
    /\ UNCHANGED PulseTestOthers

\* pulse_reset of the shell command, one store at a time:
\* pulse_count = 0; pulse_last_count = 0; pulse_has_rising = RT_FALSE
pulse_reset ==
    /\ pulse_test' =
         IF pulse_test.reset_pc = "idle"
         THEN [pulse_test EXCEPT !.count = U32(0), !.reset_pc = "last_count"]
         ELSE IF pulse_test.reset_pc = "last_count"
         THEN [pulse_test EXCEPT !.last_count = U32(0),
                                 !.reset_pc = "has_rising"]
         ELSE [pulse_test EXCEPT !.has_rising = FALSE, !.reset_pc = "idle"]
    /\ UNCHANGED PulseTestOthers
(***************************************************************************)
(* Specifications.  Each one runs a part of the firmware against the       *)
(* inputs listed for it.                                                   *)
(***************************************************************************)
Levels == {0, 1}

\* the encoder interrupts alone
EncoderNext ==
    \/ \E level \in Levels : encoder1_a_irq_callback(level)
    \/ \E level \in Levels : encoder2_a_irq_callback(level)

EncoderStartUp ==
    /\ EncoderInit /\ SampleInit /\ TargetInit /\ ChassisInit /\ ActuatorInit
    /\ ShellInit /\ RpmsgInit /\ FeedbackInit /\ OdometryInit
    /\ BootInit /\ OdoInit /\ PulseTestInit

SpecEncoder == EncoderStartUp /\ [][EncoderNext]_vars

\* <<v_left, v_right, dt>> given to odometry_update: wheel speeds in mm/s,
\* interval in ms; straight ahead, turning on the spot, and no time elapsed
OdomInputs == {<<100, 100, 33>>, <<-100, 100, 33>>, <<100, 100, 0>>}

\* the RPMsg endpoint and the odometry API, for the frames in Frames
ProtoNext(Frames) ==
    \/ \E f \in Frames : rpmsg_motor_endpoint_cb(f)
    \/ ChassisSetTargetTake
    \/ ChassisSetTargetStore
    \/ ChassisSetTargetRelease
    \/ \E in \in OdomInputs :
           odometry_update(in[1], in[2], in[3], rt_tick + in[3])
    \/ cmd_odom_reset

StartUp ==
    /\ EncoderFresh /\ SampleInit /\ TargetInit /\ ChassisInit /\ ActuatorInit
    /\ ShellInit /\ RpmsgInit /\ FeedbackInit /\ OdometryInit
    /\ BootInit /\ OdoInit /\ PulseTestInit

\* the CFG / VEL / RST protocol
ProtoFrames ==
    {F_CFG, F_CFG_B, F_CFG_ZERO_RADIUS, F_CFG_NEG_BASE, F_CFG_NO_RADIUS,
     F_VEL_FWD, F_VEL_TURN, F_VEL_ZERO, F_RST}

SpecProto == StartUp /\ [][ProtoNext(ProtoFrames)]_vars

\* the VEL frames, before a configuration and under two of them, after a
\* legacy frame or another VEL frame
VelFrames ==
    {F_CFG, F_CFG_B, F_VEL_FWD, F_VEL_TURN, F_VEL_BACK, F_VEL_PIVOT, F_VEL_ABC,
     F_VEL_NONE, F_LEGACY_BOTH}

SpecVel == StartUp /\ [][ProtoNext(VelFrames)]_vars

\* the legacy frames, after a configuration or without one
LegacyFrames ==
    {F_CFG, F_LEGACY_BOTH, F_LEGACY_STOP, F_LEGACY_ONE, F_LEGACY_BAD_DIR,
     F_GARBAGE, F_EMPTY}

SpecLegacy == StartUp /\ [][ProtoNext(LegacyFrames)]_vars

\* the arguments of cmd_speed, and the frames, in SpecCtrl
CtrlSpeedArgs == {A_BOTH, A_ONE}

CtrlMotorArgs == {A_MOTOR_ONE}

CtrlFrames == {F_LEGACY_BOTH}

\* the control thread, the shell and the endpoint callback side by side
CtrlNext ==
    \/ ChassisTake
    \/ ChassisCopy
    \/ ChassisRelease
    \/ ChassisControl1
    \/ ChassisControl2
    \/ ChassisSleep
    \/ \E arg \in CtrlSpeedArgs : CmdSpeedParse(arg)
    \/ CmdChassisStopStart
    \/ ShellTake
    \/ CmdSpeedStore
    \/ CmdChassisStopStore
    \/ ShellRelease
    \/ \E arg \in CtrlMotorArgs : cmd_motor(arg)
    \/ \E f \in CtrlFrames : rpmsg_motor_endpoint_cb(f)
    \/ ChassisSetTargetTake
    \/ ChassisSetTargetStore
    \/ ChassisSetTargetRelease

SpecCtrl == StartUp /\ [][CtrlNext]_vars


\* <<v_left, v_right, dt>> for the odometry alone: straight ahead, a turn on
\* the spot of 1 rad, of 10 rad either way, of just under and just over pi,
\* no time elapsed, and a negative interval
PoseInputs ==
    {<<100, 100, 1000>>, <<-100, 100, 1000>>, <<-1000, 1000, 1000>>,
     <<1000, -1000, 1000>>, <<-314159, 314159, 1>>, <<-314159, 314160, 1>>,
     <<100, 100, 0>>, <<100, 100, -33>>}

\* the ticks that pass until the update for an interval of dt ms is made
PoseTicks(dt) == IF dt > 0 THEN dt ELSE 0

\* one call odometry_update(v_left, v_right, dt)
PoseUpdate(in) ==
    odometry_update(in[1], in[2], in[3], rt_tick + PoseTicks(in[3]))

PoseFrames == {F_CFG, F_CFG_B, F_RST}

\* the odometry: configuration and reset frames, updates, the shell's reset
PoseNext ==
    \/ \E f \in PoseFrames : rpmsg_motor_endpoint_cb(f)
    \/ \E in \in PoseInputs : PoseUpdate(in)
    \/ cmd_odom_reset

SpecPose == StartUp /\ [][PoseNext]_vars

\* the arguments of cmd_speed for the feedforward model: a stop with a speed
\* left in the command, speed 0, speeds around a full duty, negative speeds,
\* and speeds far beyond a full duty
FeedforwardArgs ==
    {A_STOP_FAST, A_ZERO_SPEED, A_NEAR_FULL, A_NEGATIVE, A_HUGE,
     A_HUGE_SWAPPED, A_STOP_HUGE}

\* the control thread, with cmd_speed setting the targets
FeedforwardNext ==
    \/ ChassisTake
    \/ ChassisCopy
    \/ ChassisRelease
    \/ ChassisControl1
    \/ ChassisControl2
    \/ ChassisSleep
    \/ \E arg \in FeedforwardArgs : CmdSpeedParse(arg)
    \/ ShellTake
    \/ CmdSpeedStore
    \/ ShellRelease

SpecFeedforward == StartUp /\ [][FeedforwardNext]_vars

\* wheel 1 one pulse short of wrapping, wheel 2 fresh
EncoderNearWrap ==
    /\ encoder_count = [m \in Wheels |-> IF m = 1 THEN <<Limb - 1, Limb - 1>>
                                                  ELSE U32(0)]
    /\ start_count = encoder_count
    /\ encoder_has_rising = [m \in Wheels |-> FALSE]
    /\ edges = [m \in Wheels |-> <<>>]

SampleStartUp ==
    /\ EncoderNearWrap /\ SampleInit /\ TargetInit /\ ChassisInit
    /\ ActuatorInit /\ ShellInit /\ RpmsgInit /\ FeedbackInit /\ OdometryInit
    /\ BootInit /\ OdoInit /\ PulseTestInit

\* the levels the next edge interrupt of wheel m can read: the line changes
\* level between two interrupts
LineLevels(m) ==
    IF edges[m] = <<>> THEN Levels ELSE {1 - edges[m][Len(edges[m])]}

\* ticks that pass between two reads of the tick by the sampling thread: none
\* (the delay returned at once), the period, the period and one more
SampleTicks == {0, SamplePeriodMs, SamplePeriodMs + 1}

\* the sampling thread and the edge interrupts of both wheels
SampleNext ==
    \/ \E level \in LineLevels(1) : encoder1_a_irq_callback(level)
    \/ \E level \in LineLevels(2) : encoder2_a_irq_callback(level)
    \/ \E m \in Wheels : EncoderGetDeltaLoad(m)
    \/ \E m \in Wheels : EncoderGetDeltaStore(m)
    \/ \E ticks \in SampleTicks : EncoderSampleTick(ticks)
    \/ EncoderSamplePublish
    \/ EncoderSampleSleep

SpecSample == SampleStartUp /\ [][SampleNext]_vars

\* the arguments of cmd_rpmsg_feedback
FeedbackArgs ==
    {ARG_ON, ARG_OFF, A_INTERVAL_SHORT, A_INTERVAL_NINE, A_INTERVAL,
     A_INTERVAL_ZERO, A_INTERVAL_NEGATIVE, A_NO_COMMA}

\* what rpmsg_send returns: success, or an error
SendResults == {0, -1}

\* a configuration, a rejected one, and a reset
FeedbackFrames == {F_CFG, F_CFG_ZERO_RADIUS, F_RST}

\* <<v_left, v_right, dt>> while telemetry runs: one straight move
FeedbackMoves == {<<100, 100, 1000>>}

\* the feedback thread next to the endpoint, the shell and the odometry
FeedbackNext ==
    \/ EndpointCreate
    \/ rpmsg_motor_service_unbind
    \/ \E arg \in FeedbackArgs : cmd_rpmsg_feedback(arg)
    \/ FeedbackCheckReady
    \/ FeedbackCheckEnabled
    \/ FeedbackBuild
    \/ \E ret \in SendResults : FeedbackSend(ret)
    \/ FeedbackSleep
    \/ \E f \in FeedbackFrames : rpmsg_motor_endpoint_cb(f)
    \/ \E in \in FeedbackMoves : PoseUpdate(in)

SpecFeedback == StartUp /\ [][FeedbackNext]_vars

\* the arguments of cmd_rpmsg_feedback, and the frames, while the sends fail
TelemetryArgs == {ARG_ON, ARG_OFF}

TelemetryFrames == {F_CFG}

\* one step of the feedback thread
FeedbackStep ==
    \/ FeedbackCheckReady
    \/ FeedbackCheckEnabled
    \/ FeedbackBuild
    \/ \E ret \in SendResults : FeedbackSend(ret)
    \/ FeedbackSleep

TelemetryNext ==
    \/ FeedbackStep
    \/ EndpointCreate
    \/ rpmsg_motor_service_unbind
    \/ \E arg \in TelemetryArgs : cmd_rpmsg_feedback(arg)
    \/ \E f \in TelemetryFrames : rpmsg_motor_endpoint_cb(f)
    \/ \E in \in FeedbackMoves : PoseUpdate(in)

\* the feedback thread is a thread of the scheduler with a timed delay: it
\* is run again whenever it can take a step
SpecTelemetry ==
    StartUp /\ [][TelemetryNext]_vars /\ WF_vars(FeedbackStep)

\* the control loop with each PWM device found or not
LoopStartUp ==
    /\ EncoderFresh /\ SampleInit /\ TargetInit /\ ChassisInit /\ ActuatorAnyPwm
    /\ ShellInit /\ RpmsgInit /\ FeedbackInit /\ OdometryInit
    /\ BootInit /\ OdoInit /\ PulseTestInit

LoopSpeedArgs == {A_BOTH}

LoopFrames == {F_LEGACY_BOTH}

\* the steps of the control thread that wait for nothing
ChassisStep ==
    \/ ChassisCopy
    \/ ChassisRelease
    \/ ChassisControl1
    \/ ChassisControl2
    \/ ChassisSleep

\* the steps the shell makes while it holds target_mutex
ShellHolderStep ==
    \/ CmdSpeedStore
    \/ CmdChassisStopStore
    \/ ShellRelease

\* the steps chassis_set_target makes while it holds target_mutex
RpmsgHolderStep ==
    \/ ChassisSetTargetStore
    \/ ChassisSetTargetRelease

LoopNext ==
    \/ ChassisTake
    \/ ChassisStep
    \/ \E arg \in LoopSpeedArgs : CmdSpeedParse(arg)
    \/ CmdChassisStopStart
    \/ ShellTake
    \/ ShellHolderStep
    \/ \E f \in LoopFrames : rpmsg_motor_endpoint_cb(f)
    \/ ChassisSetTargetTake
    \/ RpmsgHolderStep

\* every thread that can run is run again; a thread waiting in
\* rt_mutex_take for a mutex that is released over and over gets it
SpecLoop ==
    /\ LoopStartUp
    /\ [][LoopNext]_vars
    /\ WF_vars(ChassisStep)
    /\ SF_vars(ChassisTake)
    /\ WF_vars(ShellHolderStep)
    /\ WF_vars(RpmsgHolderStep)

\* the configuration "CFG:wheel_radius=0.05;wheel_base=0.2;..." carries
OdoConfig == CfgLocals(StrFrom(F_CFG, Len(CMD_PREFIX_CFG)))

\* the state after that CFG frame
OdometryConfigured ==
    /\ odom_config = OdoConfig
    /\ odom_state = OdomZero
    /\ odom_configured = TRUE
    /\ rt_tick = 0
    /\ odom_updates = 0

LocksStartUp ==
    /\ EncoderFresh /\ SampleInit /\ TargetInit /\ ChassisInit /\ ActuatorInit
    /\ ShellInit /\ RpmsgInit /\ FeedbackInit /\ OdometryConfigured
    /\ BootInit /\ OdoInit /\ PulseTestInit

\* <<v_left, v_right, dt>> of the updates: an arc, which changes every field
OdoMoves == {<<50, 150, 1000>>}

LocksSpeedArgs == {A_ONE}

LocksFrames == {F_LEGACY_ONE}

\* the odometry API called from its four threads, the shell's cmd_speed and
\* the endpoint's chassis_set_target; a thread runs one call at a time
LocksNext ==
    \/ \E t \in OdoCallers : OdoCallConfigure(t, OdoConfig)
    \/ \E t \in OdoCallers, op \in {"reset", "get_state"} : OdoCallPlain(t, op)
    \/ \E t \in OdoCallers, in \in OdoMoves :
           OdoCallUpdate(t, in[1], in[2], in[3])
    \/ \E t \in OdoCallers : OdoTake(t)
    \/ \E t \in OdoCallers : OdoStep(t)
    \/ \E t \in OdoCallers : OdoRelease(t)
    \/ \E t \in OdoCallers : OdoPrint(t)
    \/ \E arg \in LocksSpeedArgs :
           odo.call["shell"].pc = "idle" /\ CmdSpeedParse(arg)
    \/ ShellTake
    \/ CmdSpeedStore
    \/ ShellRelease
    \/ \E f \in LocksFrames :
           odo.call["rpmsg"].pc = "idle" /\ rpmsg_motor_endpoint_cb(f)
    \/ ChassisSetTargetTake
    \/ RpmsgHolderStep

SpecLocks == LocksStartUp /\ [][LocksNext]_vars

\* the configuration "CFG:wheel_radius=0.1;wheel_base=0.4" carries
OdoConfigB == CfgLocals(StrFrom(F_CFG_B, Len(CMD_PREFIX_CFG)))

\* the configurations handed to odometry_configure
OdoConfigs == {OdoConfig, OdoConfigB}

\* the endpoint callback configures again while another thread calls
\* odometry_update
ReconfigureNext ==
    \/ \E t \in OdoCallers, config \in OdoConfigs : OdoCallConfigure(t, config)
    \/ \E t \in OdoCallers, in \in OdoMoves :
           OdoCallUpdate(t, in[1], in[2], in[3])
    \/ \E t \in OdoCallers : OdoTake(t)
    \/ \E t \in OdoCallers : OdoStep(t)
    \/ \E t \in OdoCallers : OdoRelease(t)
    \/ \E t \in OdoCallers : OdoPrint(t)

SpecReconfigure == LocksStartUp /\ [][ReconfigureNext]_vars

\* the moment before main() and rpmsg_motor_init() are entered
BootStartUp ==
    /\ EncoderFresh /\ SampleInit /\ TargetInit /\ ChassisInit /\ ActuatorInit
    /\ ShellInit /\ RpmsgInit /\ FeedbackInit /\ OdometryStatic
    /\ boot = BootFresh /\ OdoInit /\ PulseTestInit

\* whether a creation succeeds
Outcomes == BOOLEAN

\* main() and rpmsg_motor_init(), each creation succeeding or failing
BootNext ==
    \/ \E ok \in Outcomes : MainCreateTargetMutex(ok)
    \/ \E ok \in Outcomes : encoder_print_thread_start(ok)
    \/ \E ok \in Outcomes : chassis_ctrl_thread_start(ok)
    \/ \E ok \in Outcomes : RpmsgInitCreateVelMutex(ok)
    \/ \E ok \in Outcomes : odometry_init(ok)
    \/ \E ok \in Outcomes : RpmsgInitCreateInitThread(ok)
    \/ \E ok \in Outcomes : RpmsgInitCreateFeedbackThread(ok)

SpecBoot == BootStartUp /\ [][BootNext]_vars

\* the control thread, cmd_speed with targets beyond a full duty, and the
\* shell's emergency stop
EmergencyArgs == {A_HUGE, A_NEAR_FULL}

EmergencyNext ==
    \/ ChassisTake
    \/ ChassisCopy
    \/ ChassisRelease
    \/ ChassisControl1
    \/ ChassisControl2
    \/ ChassisSleep
    \/ \E arg \in EmergencyArgs : CmdSpeedParse(arg)
    \/ ShellTake
    \/ CmdSpeedStore
    \/ ShellRelease
    \/ cmd_motor_stop

SpecEmergency == StartUp /\ [][EmergencyNext]_vars

\* the control thread with directions outside {0, 1, 2}: 3 for wheel 1 by a
\* legacy frame, 3 for wheel 2 by cmd_speed, after or before a valid command
BadDirArgs == {A_HUGE, A_BAD_DIR2}

BadDirFrames == {F_LEGACY_BAD_DIR}

BadDirNext ==
    \/ ChassisTake
    \/ ChassisCopy
    \/ ChassisRelease
    \/ ChassisControl1
    \/ ChassisControl2
    \/ ChassisSleep
    \/ \E arg \in BadDirArgs : CmdSpeedParse(arg)
    \/ ShellTake
    \/ CmdSpeedStore
    \/ ShellRelease
    \/ \E f \in BadDirFrames : rpmsg_motor_endpoint_cb(f)
    \/ ChassisSetTargetTake
    \/ ChassisSetTargetStore
    \/ ChassisSetTargetRelease

SpecBadDir == StartUp /\ [][BadDirNext]_vars

\* arguments of cmd_speed with a half that is empty or has no comma
UnparsableArgs ==
    {A_HALF_BAD, A_FIRST_BAD, A_SECOND_EMPTY, A_FIRST_EMPTY, A_NO_COMMA, F_EMPTY}

\* cmd_speed with those and with two arguments that parse, beside the control
\* thread, which holds the target mutex part of the time
BadArgsNext ==
    \/ ChassisTake
    \/ ChassisCopy
    \/ ChassisRelease
    \/ ChassisControl1
    \/ ChassisControl2
    \/ ChassisSleep
    \/ \E arg \in UnparsableArgs \cup {A_BOTH, A_ONE} : CmdSpeedParse(arg)
    \/ ShellTake
    \/ CmdSpeedStore
    \/ ShellRelease

SpecBadArgs == StartUp /\ [][BadArgsNext]_vars

\* a configuration, then every kind of frame and shell command that could be
\* thought to end the new protocol, while the feedback thread runs
ModeFrames == {F_CFG, F_CFG_ZERO_RADIUS, F_RST, F_VEL_FWD, F_LEGACY_BOTH}

ModeNext ==
    \/ EndpointCreate
    \/ FeedbackStep
    \/ \E f \in ModeFrames : rpmsg_motor_endpoint_cb(f)
    \/ ChassisSetTargetTake
    \/ ChassisSetTargetStore
    \/ ChassisSetTargetRelease
    \/ \E arg \in TelemetryArgs : cmd_rpmsg_feedback(arg)
    \/ cmd_odom_reset
    \/ \E in \in FeedbackMoves : PoseUpdate(in)

SpecMode == StartUp /\ [][ModeNext]_vars

\* tick counts at which the firmware has been up for a while: 0, and around
\* 2^32 / 1000 ticks (71.6 minutes at 1000 ticks a second)
UptimeTicks == {0, 4294000, 4294966, 4294967, 4295000}

\* configured, the pose just reset, at one of those tick counts
UptimeStartUp ==
    /\ EncoderFresh /\ SampleInit /\ TargetInit /\ ChassisInit /\ ActuatorInit
    /\ ShellInit /\ RpmsgInit /\ FeedbackInit
    /\ odom_config = OdoConfig
    /\ odom_state = OdomZero
    /\ odom_configured = TRUE
    /\ rt_tick \in UptimeTicks
    /\ odom_updates = 0
    /\ BootInit /\ OdoInit /\ PulseTestInit

\* <<v_left, v_right, dt>>: one tick, one control period, one second, none
UptimeMoves ==
    {<<100, 100, 1>>, <<100, 100, 33>>, <<100, 100, 1000>>, <<100, 100, 0>>}

UptimeNext ==
    \/ \E in \in UptimeMoves : PoseUpdate(in)
    \/ cmd_odom_reset

SpecUptime == UptimeStartUp /\ [][UptimeNext]_vars

\* <<v, w>> of the host's "vel" lines (mm/s, mrad/s): ahead, a turn, back
HostVels == {<<500, 0>>, <<100, 2000>>, <<-300, 0>>}

HostFrames == {F_CFG, F_LEGACY_BOTH}

\* the host's "stop" and "vel" lines, before or after a configuration and
\* after a legacy frame
HostNext ==
    \/ HostStop
    \/ \E in \in HostVels : HostVel(in[1], in[2])
    \/ \E f \in HostFrames : rpmsg_motor_endpoint_cb(f)
    \/ ChassisSetTargetTake
    \/ ChassisSetTargetStore
    \/ ChassisSetTargetRelease

SpecHost == StartUp /\ [][HostNext]_vars

\* the pulse-count test: edges on the pin, the print thread, the shell's
\* pulse_reset
PulseTestNext ==
    \/ \E level \in Levels : pulse_gpio_irq_callback(level)
    \/ PulseGetDeltaLoad
    \/ PulseGetDeltaSubtract
    \/ PulseGetDeltaStore
    \/ PulsePrint
    \/ pulse_reset

SpecPulseTest == StartUp /\ [][PulseTestNext]_vars

(***************************************************************************)
(* Properties.                                                             *)
(***************************************************************************)
\* the number of complete rising -> falling pairs in a sequence of levels: a
\* fall right after a rise (a repeated rise is still a rise)
CompletePairs(e) == Cardinality({i \in 2..Len(e) : e[i] = 0 /\ e[i - 1] = 1})

\* the four stored targets as <<dir1, speed1, dir2, speed2>>
Targets ==
    <<motor1_target_dir, motor1_target_speed, motor2_target_dir,
      motor2_target_speed>>

\* the pulse width (ns) that is the fraction duty of the PWM period
PulseOfDuty(duty) == duty \div (DutyOne \div PWM_PERIOD)

\* f is a frame of the legacy branch of the endpoint callback
IsLegacyFrame(f) ==
    /\ ~HasPrefix(f, CMD_PREFIX_CFG)
    /\ ~HasPrefix(f, CMD_PREFIX_VEL)
    /\ ~HasPrefix(f, CMD_PREFIX_RST)

\* C1: after any sequence of edge interrupts on an encoder line, the count is
\* the starting count plus (modulo 2^32) the number of complete rising ->
\* falling pairs, and a rising edge is latched exactly when the last edge seen
\* was a rising one
C1_CountIsCompletePairs ==
    \A m \in Wheels :
        /\ encoder_count[m] = U32Plus(start_count[m], CompletePairs(edges[m]))
        /\ encoder_has_rising[m] = (edges[m] # <<>> /\ edges[m][Len(edges[m])] = 1)

\* rise, rise, fall, fall, rise on line 1: one pulse counted
C1_Witness ==
    /\ edges[1] = <<1, 1, 0, 0, 1>>
    /\ encoder_count[1] = U32Inc(start_count[1])

\* C2: when the control loop has copied the four targets and has not yet
\* released the mutex, its four copies are the four values of one writer call
\* (the last one that completed its stores, or the initial zeros)
C2_TickSnapshotIsOneWrite ==
    chassis.pc = "release" =>
        <<chassis.dir1, chassis.target_speed1, chassis.dir2,
          chassis.target_speed2>> = last_write

\* the loop holds the copies of cmd_speed 2,1.5 written over cmd_speed
\* 1,2.0;1,2.0 while the shell waits for the mutex with its next command
C2_Witness ==
    /\ chassis.pc = "release"
    /\ last_write = <<2, 1500, 0, 0>>
    /\ prev_write = <<1, 2000, 1, 2000>>
    /\ <<chassis.dir1, chassis.target_speed1, chassis.dir2,
         chassis.target_speed2>> = last_write
    /\ shell.pc \in {"speed_take", "stop_take"}

\* C3: the frame "garbage" is reported as an unknown command, and no step of
\* its handling changes the four targets or the odometry state
C3_GarbageChangesNothing ==
    [][/\ rpmsg_motor_endpoint_cb(F_GARBAGE) => rpmsg_log' = "unknown"
       /\ rpmsg.recv_str = F_GARBAGE => UNCHANGED <<Targets, odom_state>>]_vars

\* C4: by the time a round of the control loop reaches its sleep, it has made
\* an odometry_update call
C4_TickUpdatesOdometry ==
    chassis.pc = "sleep" => odom_updates >= 1

\* C5: when the control loop drives a wheel forward or backward with duty d,
\* the pulse width it leaves set is d * PWM_PERIOD, to within the setter's
\* step of one percent of the period
C5_PulseIsDutyTimesPeriod ==
    [][/\ (ChassisControl1 /\ chassis.dir1 \in {1, 2}) =>
              Abs(pwm_pulse'[1] - PulseOfDuty(ChassisDuty1)) <= PWM_PERIOD \div 100
       /\ (ChassisControl2 /\ chassis.dir2 \in {1, 2}) =>
              Abs(pwm_pulse'[2] - PulseOfDuty(ChassisDuty2)) <= PWM_PERIOD \div 100]_vars

\* the CFG frames of ProtoFrames whose wheel_radius or wheel_base parses to a
\* value <= 0 (a missing key parses to 0)
RejectedCfgFrames ==
    {f \in ProtoFrames :
        /\ HasPrefix(f, CMD_PREFIX_CFG)
        /\ LET cfg == CfgLocals(StrFrom(f, Len(CMD_PREFIX_CFG)))
           IN  cfg.wheel_radius <= 0 \/ cfg.wheel_base <= 0}

\* C6: a CFG frame whose wheel_radius or wheel_base parses to a value <= 0
\* (a missing key parses to 0) changes neither the configuration, nor the
\* configured flag, nor the new-protocol flag, nor the odometry state, nor the
\* targets
C6_RejectedCfgChangesNothing ==
    [][\A f \in RejectedCfgFrames :
           rpmsg_motor_endpoint_cb(f)
           => UNCHANGED <<odom_config, odom_configured, new_protocol_enabled,
                          odom_state, Targets>>]_vars

\* a CFG frame was rejected after another had been accepted and the robot had
\* moved: the accepted configuration and the pose are still there
C6_Witness ==
    /\ rpmsg_log = "cfg_error"
    /\ odom_configured
    /\ new_protocol_enabled
    /\ odom_config.wheel_radius = 50
    /\ odom_config.wheel_base = 200
    /\ odom_state.x > 0

\* C7: once a VEL:v,0 frame with v / (2 pi R) > 0.001 rev/s has been stored
\* under a configuration with wheel radius R, both targets are Forward with
\* the same speed v / (2 pi R), and they are the values of one write
C7_StraightVelSetsBothForward ==
    \A f \in ProtoFrames :
        LET p == parse_vel_command(StrFrom(f, Len(CMD_PREFIX_VEL)))
            R == odom_config.wheel_radius
            s == (1000 * p.v * PiDen) \div (2 * PiNum * R)
        IN  (/\ rpmsg.pc = "set_release"
             /\ rpmsg.recv_str = f
             /\ HasPrefix(f, CMD_PREFIX_VEL)
             /\ odom_configured
             /\ p.w = 0
             /\ 1000 * p.v * PiDen > 2 * PiNum * R)
            => /\ Targets = <<1, s, 1, s>>
               /\ last_write = Targets

\* "VEL:0.5,0.0" under wheel_radius = 0.05: both wheels Forward at
\* 0.5 / (2 pi 0.05) = 1.591 rev/s
C7_Witness ==
    /\ rpmsg.pc = "set_release"
    /\ rpmsg.recv_str = F_VEL_FWD
    /\ odom_config.wheel_radius = 50
    /\ Targets = <<1, 1591, 1, 1591>>

\* C8: once a legacy frame "d1,s1;d2,s2" has been stored, wheel 1's target
\* is (d1, s1) and wheel 2's is (d2, s2), the values of one write:
\* "1,0.5;2,0.3" gives Forward 0.5 and Backward 0.3, "0,0;0,0" gives Stop 0
\* twice
C8_LegacyPairSetsBothWheels ==
    /\ (rpmsg.pc = "set_release" /\ rpmsg.recv_str = F_LEGACY_BOTH) =>
           (Targets = <<1, 500, 2, 300>> /\ last_write = Targets)
    /\ (rpmsg.pc = "set_release" /\ rpmsg.recv_str = F_LEGACY_STOP) =>
           (Targets = <<0, 0, 0, 0>> /\ last_write = Targets)

\* "1,0.5;2,0.3" stored over the targets of "2,1.5"
C8_Witness ==
    /\ rpmsg.pc = "set_release"
    /\ rpmsg.recv_str = F_LEGACY_BOTH
    /\ prev_write = <<2, 1500, 0, 0>>
    /\ Targets = <<1, 500, 2, 300>>

\* C9: when cmd_speed was given a single "dir,speed" pair and has made its
\* stores, wheel 1's target is that pair and wheel 2's target is what it was
\* before the command
C9_SinglePairKeepsWheel2 ==
    (shell.pc = "release" /\ shell.cmd = "speed" /\ StrChr(shell.arg, ";") = 0)
    => /\ motor1_target_dir = shell.dir1
       /\ motor1_target_speed = shell.speed1
       /\ motor2_target_dir = prev_write[3]
       /\ motor2_target_speed = prev_write[4]

\* C10: once a legacy frame holding a single "dir,speed" pair has been
\* stored, wheel 1's target is that pair and wheel 2's target is Stop with
\* speed 0
C10_LegacySinglePairStopsWheel2 ==
    \A f \in LegacyFrames :
        LET comma == StrChr(f, ",")
        IN  (/\ rpmsg.pc = "set_release"
             /\ rpmsg.recv_str = f
             /\ IsLegacyFrame(f)
             /\ StrChr(f, ";") = 0
             /\ comma # 0)
            => Targets = <<AtoI(StrUntil(f, comma)), AtoF(StrFrom(f, comma)), 0, 0>>

\* "2,1.5" stored over the targets of "1,0.5;2,0.3": wheel 2 was Backward at
\* 0.3 and is now Stop at 0
C10_Witness ==
    /\ rpmsg.pc = "set_release"
    /\ rpmsg.recv_str = F_LEGACY_ONE
    /\ prev_write = <<1, 500, 2, 300>>
    /\ Targets = <<2, 1500, 0, 0>>


\* C11: an RST: frame, and odometry_reset called from the shell, zero x, y,
\* theta, v, w and timestamp_ms and leave the four configuration fields, the
\* configured flag, the new-protocol flag and the four targets as they were
C11_ResetZeroesPoseOnly ==
    [][(rpmsg_motor_endpoint_cb(F_RST) \/ cmd_odom_reset)
       => /\ odom_state' = OdomZero
          /\ UNCHANGED <<odom_config, odom_configured, new_protocol_enabled,
                         Targets>>]_vars

\* an RST: frame arrived after a configuration, a stored VEL target and an
\* odometry update that had moved the pose and stamped it
C11_Witness ==
    /\ rpmsg_log = "rst"
    /\ odom_state = OdomZero
    /\ odom_configured
    /\ new_protocol_enabled
    /\ odom_config.wheel_base = 200
    /\ motor1_target_dir = 1
    /\ motor1_target_speed > 0
    /\ odom_updates >= 1
    /\ rt_tick > 0

\* the pulses wheel m had counted when the first n of its edge interrupts had
\* been served
PulsesAfter(m, n) == CompletePairs(SubSeq(edges[m], 1, n))

\* C12: each encoder<m>_get_delta call returns the number of pulses counted
\* between the previous call's load of the counter and its own (0 when no
\* pulse was counted in between), as a 32-bit value and also when the counter
\* wrapped in between; the deltas returned so far add up to the pulses counted
\* before the last load, however the edge interrupts fall between the load
\* and the store
C12_DeltaIsPulsesSinceLastCall ==
    [][\A m \in Wheels :
           EncoderGetDeltaStore(m)
           => /\ sampler'.delta[m]
                   = U32(PulsesAfter(m, sample_log.loaded_at[m])
                             - PulsesAfter(m, sample_log.last_at[m]))
              /\ sample_log'.total[m]
                   = PulsesAfter(m, sample_log.loaded_at[m])
              /\ encoder_last_count'[m]
                   = U32Plus(start_count[m],
                             PulsesAfter(m, sample_log.loaded_at[m]))]_vars

\* second round, wheel 1: the counter wrapped from 0xFFFFFFFF to 0 before the
\* load, the call returned 1, and one more pulse has been counted since the
\* load that the next call will return
C12_Witness ==
    /\ sample_log.samples = 1
    /\ sampler.pc = "load2"
    /\ sampler.delta[1] = U32(1)
    /\ sample_log.total[1] = 1
    /\ encoder_last_count[1] = U32(0)
    /\ encoder_count[1] = U32(1)
    /\ start_count[1] = <<Limb - 1, Limb - 1>>

\* C13: when the sampling thread measures an elapsed time of 0 ms it leaves
\* both published speeds as they were; when it measures more, each published
\* speed is delta * 1000 / (PPR * ratio * elapsed_ms) for the elapsed_ms it
\* measured (here to the thousandth of a revolution per second, rounded down)
C13_SpeedFromMeasuredInterval ==
    [][EncoderSamplePublish
       => /\ sampler.elapsed_ms = 0 => shared_speed' = shared_speed
          /\ sampler.elapsed_ms > 0
             => \A m \in Wheels :
                    LET pulses == U32Val(sampler.delta[m]) * 1000000
                        den    == EncoderPPR(m) * ReductionRatio(m)
                                      * sampler.elapsed_ms
                    IN  /\ shared_speed'[m] * den <= pulses
                        /\ pulses < (shared_speed'[m] + 1) * den
          /\ sampler.elapsed_ms
                 = ((rt_tick - sample_log.tick_before) * 1000)
                       \div RT_TICK_PER_SECOND]_vars

\* second round: no time was measured and no pulse counted; the delta
\* published is 0 and the speed of wheel 1 is still the 0.032 rev/s of the
\* first round (one pulse in 50 ms)
C13_Witness ==
    /\ sample_log.samples = 1
    /\ sampler.pc = "sleep"
    /\ sampler.elapsed_ms = 0
    /\ shared_speed[1] = 32
    /\ shared_delta[1] = U32(0)
    /\ shared_speed[2] = 0

\* C14: the stored theta lies strictly between -pi and pi (so within
\* (-pi, pi]) after any number of updates, whatever the size and sign of
\* w * dt; pi lies between PiMicro - 1 and PiMicro micro-radians
C14_ThetaStaysNormalized ==
    /\ -PiMicro < odom_state.theta
    /\ odom_state.theta < PiMicro

\* two turns of 10 rad each have been integrated: 20 rad, less three full
\* turns, is stored
C14_Witness ==
    /\ odom_configured
    /\ odom_updates = 2
    /\ odom_config.wheel_base = 200
    /\ odom_state.w = 10000
    /\ odom_state.theta = 20000000 - 3 * TwoPiMicro

\* C15: odometry_update leaves every field of the odometry state as it was
\* when the odometry is not configured or dt <= 0, whatever v_left and v_right
C15_UpdateIgnoredWithoutConfigOrTime ==
    [][\A in \in PoseInputs :
           (PoseUpdate(in) /\ (~odom_configured \/ in[3] <= 0))
           => UNCHANGED odom_state]_vars

\* an update with a negative interval was made and ignored after one that had
\* moved the pose
C15_Witness ==
    /\ odom_configured
    /\ odom_updates = 2
    /\ odom_state.x = 100000
    /\ odom_state.timestamp_ms = 1000
    /\ rt_tick = 1000

\* C16: while configured, an update with v_left = v_right = s and dt > 0
\* stores w = 0 and leaves theta as it was; with theta = 0 it adds s * dt to x
\* and leaves y as it was (mm/s times ms are micro-metres)
C16_StraightAddsDistance ==
    [][\A in \in PoseInputs :
           (PoseUpdate(in) /\ odom_configured /\ in[1] = in[2] /\ in[3] > 0)
           => /\ odom_state'.w = 0
              /\ odom_state'.theta = odom_state.theta
              /\ odom_state'.v = in[1]
              /\ odom_state.theta = 0
                 => /\ odom_state'.x = odom_state.x + in[1] * in[3]
                    /\ odom_state'.y = odom_state.y]_vars

\* two updates at 0.1 m/s for 1 s each from the reset pose: x = 0.2 m
C16_Witness ==
    /\ odom_configured
    /\ odom_updates = 2
    /\ odom_state.x = 200000
    /\ odom_state.y = 0
    /\ odom_state.theta = 0
    /\ odom_state.w = 0

\* C17: while configured, an update with v_left = -v_right and dt > 0 stores
\* v = 0 and w = (v_right - v_left) / wheel_base (to the last digit kept for
\* w), leaves x and y as they were,
\* and stores a theta that differs from theta + w * dt by a whole number of
\* turns and lies between -pi and pi
C17_SpinTurnsInPlace ==
    [][\A in \in PoseInputs :
           (PoseUpdate(in) /\ odom_configured /\ in[1] = -in[2] /\ in[3] > 0)
           => /\ odom_state'.v = 0
              /\ Abs(odom_state'.w * odom_config.wheel_base
                         - (in[2] - in[1]) * 1000) < odom_config.wheel_base
              /\ odom_state'.x = odom_state.x
              /\ odom_state'.y = odom_state.y
              /\ \E k \in -4 .. 4 :
                     odom_state'.theta
                         = odom_state.theta + odom_state'.w * in[3]
                               - k * TwoPiMicro
              /\ -PiMicro < odom_state'.theta
              /\ odom_state'.theta < PiMicro]_vars

\* wheel speeds -0.1 and +0.1 m/s with a wheel base of 0.2 m for 1 s, after a
\* straight metre-tenth: w = 1 rad/s, theta = 1 rad, x kept
C17_Witness ==
    /\ odom_configured
    /\ odom_config.wheel_base = 200
    /\ odom_updates = 2
    /\ odom_state.v = 0
    /\ odom_state.w = 1000
    /\ odom_state.theta = 1000000
    /\ odom_state.x = 100000
    /\ odom_state.y = 0

\* speeds (thousandths of a revolution per second) at which the duty is
\* compared with the duty of the copied target
ProbeSpeeds ==
    {-100000, -2000, -241, -84, -1, 0, 1, 500, 2000, 3500, 3512, 3600, 3700,
     100000}

\* C18: for direction Stop the feedforward duty is 0 at every speed, and the
\* control loop's motor_control call for a wheel whose copied direction is
\* Stop leaves that wheel coasting with a pulse width of 0, whatever speed is
\* stored for it and whatever the wheel was doing
C18_StopCoastsWithZeroDuty ==
    [][/\ \A s \in ProbeSpeeds \cup {chassis.target_speed1,
                                      chassis.target_speed2} :
              motor1_model(0, s) = 0 /\ motor2_model(0, s) = 0
       /\ (ChassisControl1 /\ chassis.dir1 = 0)
          => /\ ChassisDuty1 = 0
             /\ motor_pins'[1] = "coast"
             /\ pwm_pulse'[1] = 0
       /\ (ChassisControl2 /\ chassis.dir2 = 0)
          => /\ ChassisDuty2 = 0
             /\ motor_pins'[2] = "coast"
             /\ pwm_pulse'[2] = 0]_vars

\* wheel 1 had been driven at a full duty and then got "0,1000": it coasts
\* with pulse 0 while the speed 1000 is still stored for it
C18_Witness ==
    /\ chassis.pc = "control2"
    /\ chassis.dir1 = 0
    /\ chassis.target_speed1 = 1000000
    /\ motor1_target_speed = 1000000
    /\ motor_pins[1] = "coast"
    /\ pwm_pulse[1] = 0
    /\ motor_pins[2] = "forward"

C20_OdmIffNewProtocolAndConfigured ==
    [][/\ FeedbackBuild
          => /\ feedback'.frame.kind = "ODM"
                  <=> (new_protocol_enabled /\ odom_configured)
             /\ feedback'.frame.kind = "legacy"
                  <=> ~(new_protocol_enabled /\ odom_configured)
             /\ feedback'.frame.kind = "ODM"
                  => feedback'.frame.odom = odom_state
       /\ (\E ret \in SendResults : FeedbackSend(ret))
          => /\ telemetry'.frame = feedback.frame
             /\ telemetry'.frame.kind \in {"ODM", "legacy"}]_vars

\* a status frame was sent before the configuration arrived; the cycle after
\* it has built an ODM: frame with the pose of a move
C20_Witness ==
    /\ telemetry.frame.kind = "legacy"
    /\ feedback.pc = "send"
    /\ feedback.frame.kind = "ODM"
    /\ feedback.frame.odom.x = 100000
    /\ new_protocol_enabled
    /\ odom_configured

\* C21: feedback_interval_ms is at least 10 in every state; a request below
\* 10 stores 10, a request of 10 or more is stored as it is, and
\* cmd_rpmsg_feedback leaves the interval as it was for an argument that
\* atoi() reads as 0 or less ("0", "-5", a text without digits, "on", "off")
C21_IntervalNeverBelowFloor ==
    /\ [](feedback_interval_ms >= 10)
    /\ [][\A arg \in FeedbackArgs :
              cmd_rpmsg_feedback(arg)
              => /\ (AtoI(arg) <= 0 \/ arg \in {ARG_ON, ARG_OFF})
                    => feedback_interval_ms' = feedback_interval_ms
                 /\ (AtoI(arg) > 0 /\ AtoI(arg) < 10)
                    => feedback_interval_ms' = 10
                 /\ AtoI(arg) >= 10
                    => feedback_interval_ms' = AtoI(arg)]_vars

\* an interval of 5 or 9 ms was asked for and 10 ms is stored
C21_Witness ==
    /\ feedback_interval_ms = 10
    /\ shell.pc = "idle"

\* the threads and handlers that take each mutex: the control thread takes
\* the target mutex; the endpoint callback (registered by "rpmsg_mi") and the
\* feedback thread take the odometry mutex; the endpoint callback takes the
\* velocity mutex
TakersOf(mutex) ==
    IF mutex = "target" THEN {"chassis"}
    ELSE IF mutex = "odom" THEN {"rpmsg_mi", "rpmsg_fb"}
    ELSE {"rpmsg_mi"}

\* C22: when the creation of a mutex or of a thread has failed, the function
\* that made it stops there and returns a failure, and no thread that takes a
\* mutex that could not be created is started
C22_InitFailureStopsAndReports ==
    /\ \A n \in {"target", "odom", "vel"} :
           boot.mutex[n] = "failed"
           => \A t \in TakersOf(n) : boot.thread[t] # "started"
    /\ (boot.mutex["target"] = "failed" /\ boot.main_pc = "returned")
       => boot.main_ret # 0
    /\ ((boot.mutex["odom"] = "failed" \/ boot.mutex["vel"] = "failed")
          /\ boot.init_pc = "returned")
       => boot.init_ret # "RT_EOK"
    /\ ((boot.thread["enc_print"] = "failed" \/ boot.thread["chassis"] = "failed")
          /\ boot.main_pc = "returned")
       => boot.main_ret # 0
    /\ ((boot.thread["rpmsg_mi"] = "failed" \/ boot.thread["rpmsg_fb"] = "failed")
          /\ boot.init_pc = "returned")
       => boot.init_ret # "RT_EOK"

\* f is a frame of the VEL branch of the endpoint callback
IsVelFrame(f) == HasPrefix(f, CMD_PREFIX_VEL)

\* C23: while no wheel radius is configured (wheel_radius <= 0) the conversion
\* from wheel speed to revolutions per second is 0 for every wheel speed, and
\* the store made for a VEL frame writes direction Stop and speed 0 to both
\* wheels, whatever v and w the frame carried and whatever the targets were
C23_UnconfiguredVelStoresStop ==
    [][odom_config.wheel_radius <= 0
       => /\ \A ws \in ProbeSpeeds :
                 rpmsg_motor_wheel_speed_to_motor_rps(ws).num = 0
          /\ \A f \in VelFrames :
                 (IsVelFrame(f) /\ rpmsg_motor_endpoint_cb(f))
                 => /\ rpmsg'.dir1 = 0 /\ rpmsg'.speed1 = 0
                    /\ rpmsg'.dir2 = 0 /\ rpmsg'.speed2 = 0
          /\ (ChassisSetTargetStore /\ IsVelFrame(rpmsg.recv_str))
             => Targets' = <<0, 0, 0, 0>>]_vars

\* "VEL:0.1,2" arrived before any CFG frame, after the legacy frame
\* "1,0.5;2,0.3" had set both wheels going: the store has stopped both
C23_Witness ==
    /\ odom_config.wheel_radius <= 0
    /\ rpmsg.pc = "set_release"
    /\ rpmsg.recv_str = F_VEL_TURN
    /\ target_linear_vel = 100
    /\ target_angular_vel = 2000
    /\ prev_write = <<1, 500, 2, 300>>
    /\ Targets = <<0, 0, 0, 0>>

\* C24: a VEL frame whose body holds no number ("VEL:abc", "VEL:") is
\* dropped: no step of its handling changes the four targets or the stored
\* target linear and angular velocity
C24_UnparsableVelDropped ==
    [][/\ \A f \in {F_VEL_ABC, F_VEL_NONE} :
              rpmsg_motor_endpoint_cb(f)
              => UNCHANGED <<Targets, target_linear_vel, target_angular_vel>>
       /\ rpmsg.recv_str \in {F_VEL_ABC, F_VEL_NONE}
          => UNCHANGED <<Targets, target_linear_vel, target_angular_vel>>]_vars

\* C25: under a configuration (wheel_radius R > 0, wheel_base B > 0) the store
\* made for a VEL frame with velocities v, w writes for the left wheel the
\* revolutions per second of v - w B / 2 and for the right wheel those of
\* v + w B / 2, each divided by 2 pi R: direction Forward iff above 0.001,
\* Backward iff below -0.001, Stop otherwise, and the absolute value as speed
C25_VelStoresWheelRps ==
    [][(/\ ChassisSetTargetStore
        /\ IsVelFrame(rpmsg.recv_str)
        /\ odom_config.wheel_radius > 0)
       => LET p   == parse_vel_command(StrFrom(rpmsg.recv_str, Len(CMD_PREFIX_VEL)))
              B   == odom_config.wheel_base
              den == 4 * PiNum * odom_config.wheel_radius
              l   == (2000 * p.v - p.w * B) * PiDen
              r   == (2000 * p.v + p.w * B) * PiDen
          IN  /\ B > 0
              /\ p.v = target_linear_vel /\ p.w = target_angular_vel
              /\ motor1_target_dir' = 1 <=> l > den
              /\ motor1_target_dir' = 2 <=> l < -den
              /\ motor1_target_dir' = 0 <=> (-den <= l /\ l <= den)
              /\ motor2_target_dir' = 1 <=> r > den
              /\ motor2_target_dir' = 2 <=> r < -den
              /\ motor2_target_dir' = 0 <=> (-den <= r /\ r <= den)
              /\ motor1_target_speed' = Abs(l) \div den
              /\ motor2_target_speed' = Abs(r) \div den]_vars

\* "VEL:0.1,1" under wheel_radius = 0.05, wheel_base = 0.2: the left wheel
\* stands (0.1 - 1 * 0.1 = 0), the right wheel goes forward at
\* 0.2 / (2 pi 0.05) = 0.636 rev/s
C25_Witness ==
    /\ rpmsg.pc = "set_release"
    /\ rpmsg.recv_str = F_VEL_PIVOT
    /\ odom_config.wheel_radius = 50
    /\ odom_config.wheel_base = 200
    /\ Targets = <<0, 0, 1, 636>>

\* C26: in every state each wheel's stored target has a direction among
\* 0 (Stop), 1 (Forward), 2 (Backward) and a speed that is not negative
C26_TargetsWellFormed ==
    /\ motor1_target_dir \in {0, 1, 2}
    /\ motor2_target_dir \in {0, 1, 2}
    /\ motor1_target_speed >= 0
    /\ motor2_target_speed >= 0

\* C27: a round of the feedback thread calls rpmsg_send at most once; when
\* the call fails the failure is printed and the thread goes on to its delay
\* with that one call made; the round after it starts with no call made,
\* builds its frame from the state as it is then, and, unless the endpoint
\* is unbound or feedback is switched off, reaches its own call of rpmsg_send
C27_FailedSendNotRepeated ==
    /\ [](feedback.sends <= 1)
    /\ [][/\ (\E ret \in SendResults : ret < 0 /\ FeedbackSend(ret))
             => /\ telemetry'.log = "send_failed"
                /\ telemetry'.ret < 0
                /\ feedback'.pc = "sleep"
                /\ feedback'.sends = 1
          /\ FeedbackSleep => feedback'.sends = 0 /\ feedback'.pc = "ready"
          /\ (FeedbackBuild /\ telemetry.ret < 0)
             => feedback'.frame =
                    IF new_protocol_enabled /\ odom_configured
                    THEN [kind |-> "ODM", odom |-> odom_state]
                    ELSE [kind |-> "legacy", odom |-> OdomZero]]_vars
    /\ (feedback.pc = "sleep" /\ telemetry.ret < 0)
           ~> \/ feedback.pc = "send" /\ feedback.sends = 0
              \/ ~endpoint_ready
              \/ ~feedback_enabled

\* the send of a status frame has failed; the round after it has built an
\* ODM: frame from the pose of a move and stands before its own send
C27_Witness ==
    /\ telemetry.ret < 0
    /\ telemetry.log = "send_failed"
    /\ telemetry.frame.kind = "legacy"
    /\ feedback.pc = "send"
    /\ feedback.sends = 0
    /\ feedback.frame.kind = "ODM"
    /\ feedback.frame.odom.x = 100000

\* a write to the PWM of wheel m fails in every round
PwmFails(m) == ~motor_pwm_initialized[m]

\* C28: the control loop goes round for ever: it reaches its actuation and
\* its delay again and again, also when a PWM device was never initialized
\* so that every motor<m>_set_duty returns an error; whoever holds
\* target_mutex gives it up, and a loop that waits for it gets it; after a
\* round whose write failed the loop copies the targets again and actuates
\* again
C28_LoopTicksForever ==
    /\ []<>(chassis.pc = "take")
    /\ []<>(chassis.pc = "control1")
    /\ []<>(chassis.pc = "sleep")
    /\ \A h \in {"shell", "rpmsg", "chassis"} :
           (target_mutex = h) ~> (target_mutex # h)
    /\ (chassis.pc = "take") ~> (target_mutex = "chassis")
    /\ (chassis.pc = "sleep" /\ (PwmFails(1) \/ PwmFails(2)))
           ~> (chassis.pc = "copy_dir1")
    /\ (chassis.pc = "copy_dir1" /\ (PwmFails(1) \/ PwmFails(2)))
           ~> (chassis.pc = "control2")

\* the PWM of wheel 1 was never initialized: the round has copied the
\* targets "1,0.5;2,0.3", its write for wheel 1 has set the bridge and left
\* the pulse at 0, and the loop has gone on to wheel 2 and to its delay
C28_Witness ==
    /\ PwmFails(1) /\ ~PwmFails(2)
    /\ chassis.pc = "sleep"
    /\ chassis.dir1 = 1 /\ chassis.target_speed1 = 500
    /\ motor_pins[1] = "forward"
    /\ pwm_pulse[1] = 0
    /\ motor_pins[2] = "backward"

\* C30: the OdometryState a completed odometry_get_state has filled is, in
\* all six fields, the state that one completed odometry_update or
\* odometry_reset has left (odometry_init's reset being the first), however
\* the three calls are interleaved
C30_GetStateIsOneSnapshot ==
    \A t \in OdoCallers :
        (odo.call[t].op = "get_state" /\ odo.call[t].pc = "idle")
        => odo.call[t].state \in odo.done

\* the feedback thread's odometry_get_state has returned the state an update
\* had left, pose and time stamp together; the shell's odometry_reset is now
\* half way through its stores
C30_Witness ==
    /\ odo.call["feedback"].op = "get_state"
    /\ odo.call["feedback"].pc = "idle"
    /\ odo.call["feedback"].state.x # 0
    /\ odo.call["feedback"].state.theta # 0
    /\ odo.call["feedback"].state.timestamp_ms = 1000
    /\ odo.call["shell"].op = "reset"
    /\ odo.call["shell"].pc = "theta"
    /\ odom_state.x = 0
    /\ odom_state.theta # 0

\* what a thread is doing at a position of an odometry call
OdoDoing(pc) ==
    IF pc \in OdoFieldSteps THEN "copy or arithmetic"
    ELSE IF pc = "print" THEN "logging"
    ELSE pc

\* the positions of a thread between its rt_mutex_take of target_mutex and
\* the release: the stores of the four targets
TargetHolderSteps(t) ==
    IF t = "shell"
    THEN shell.pc \in {"speed_dir1", "speed_dir2", "speed_speed1",
                       "speed_speed2", "release"}
    ELSE IF t = "rpmsg" THEN rpmsg.pc \in {"set_store", "set_release"}
    ELSE FALSE

\* C29: a thread that holds odom_mutex is at a statement that copies or
\* computes a field, or at the release; a thread that holds target_mutex is
\* at one of the four stores or at the release; parsing (cmd_speed's
\* arguments, a received frame) and printing are done by a thread that
\* holds neither mutex; no thread holds both mutexes
C29_HoldersOnlyCopy ==
    /\ [](\A t \in OdoCallers :
              /\ odo.mutex = t
                 => OdoDoing(odo.call[t].pc) \in {"copy or arithmetic", "release"}
              /\ target_mutex = t => TargetHolderSteps(t)
              /\ ~(odo.mutex = t /\ target_mutex = t))
    /\ [][/\ \A t \in OdoCallers :
                 OdoPrint(t) => odo.mutex # t /\ target_mutex # t
          /\ \A arg \in LocksSpeedArgs :
                 CmdSpeedParse(arg)
                 => target_mutex # "shell" /\ odo.mutex # "shell"
          /\ \A f \in LocksFrames :
                 rpmsg_motor_endpoint_cb(f)
                 => target_mutex # "rpmsg" /\ odo.mutex # "rpmsg"
          /\ ShellRelease => target_mutex' # "shell"]_vars

\* the endpoint callback prints "[Odometry] Reset" with odom_mutex released
\* and already taken by the updater, while the shell holds target_mutex
\* between two of cmd_speed's stores
C29_Witness ==
    /\ odo.call["rpmsg"].op = "reset"
    /\ odo.call["rpmsg"].pc = "print"
    /\ odo.mutex = "updater"
    /\ odo.call["updater"].pc = "x"
    /\ target_mutex = "shell"
    /\ shell.pc = "speed_speed1"

\* C31: whenever the is-configured flag is set, the four configuration
\* fields a reader finds are those of one configuration handed to
\* odometry_configure, never a mix of two; in particular the configuration
\* from which an odometry_update that passes its gate takes wheel_base is a
\* whole one
C31_ConfigureIsAtomic ==
    /\ [](odom_configured => odom_config \in OdoConfigs)
    /\ [][\A t \in OdoCallers, in \in OdoMoves :
              (OdoCallUpdate(t, in[1], in[2], in[3]) /\ odo'.call[t].pc = "take")
              => odom_config \in OdoConfigs]_vars

\* the four copies of the control loop as <<dir1, speed1, dir2, speed2>>
Copies ==
    <<chassis.dir1, chassis.target_speed1, chassis.dir2, chassis.target_speed2>>

\* C32: a round of the control loop that has copied the targets of the last
\* completed write <<d1, s1, d2, s2>> (as every round does whose copies are
\* made after that write and before another one) makes for wheel m the call
\* motor_control(m, dm, clamp(model_m(dm, sm), 0, 1)), and so does every
\* round after it while no other write is made
C32_TickActuatesLastWrite ==
    [][/\ ChassisRelease => Copies' = last_write
       /\ (ChassisControl1 /\ Copies = last_write)
          => LET act == motor_control(Actuator, 1, last_write[1],
                            ClampDuty(motor1_model(last_write[1], last_write[2])))
             IN  motor_pins' = act.pins /\ pwm_pulse' = act.pulse
       /\ (ChassisControl2 /\ Copies = last_write)
          => LET act == motor_control(Actuator, 2, last_write[3],
                            ClampDuty(motor2_model(last_write[3], last_write[4])))
             IN  motor_pins' = act.pins /\ pwm_pulse' = act.pulse]_vars

\* "1,100;2,100" was written over "1,3.5;2,3.6": the round that copied it has
\* both wheels at a full duty, wheel 1 forward and wheel 2 backward
C32_Witness ==
    /\ chassis.pc = "sleep"
    /\ last_write = <<1, 100000, 2, 100000>>
    /\ prev_write = <<1, 3500, 2, 3600>>
    /\ Copies = last_write
    /\ Targets = last_write
    /\ motor_pins = [m \in Wheels |-> IF m = 1 THEN "forward" ELSE "backward"]
    /\ pwm_pulse[1] = DutyPulse(1)
    /\ pwm_pulse[2] = DutyPulse(1)

\* C33: after the shell's cmd_motor_stop, and until the shell runs another
\* command, both bridges stay released and both pulse widths stay 0, also
\* while the control loop runs with a target other than Stop stored.
C33_EmergencyStopHolds ==
    [](shell.cmd = "motor_stop"
       => /\ motor_pins = [m \in Wheels |-> "coast"]
          /\ pwm_pulse = [m \in Wheels |-> 0])

ValidDirs == {0, 1, 2}

\* C34: a control tick that finds a direction outside {0, 1, 2} for a wheel
\* leaves that wheel's direction pins and pulse width as they were, so the
\* wheel keeps what the last valid command set.
C34_InvalidDirectionKeepsActuation ==
    [][/\ (ChassisControl1 /\ chassis.dir1 \notin ValidDirs)
          => motor_pins'[1] = motor_pins[1] /\ pwm_pulse'[1] = pwm_pulse[1]
       /\ (ChassisControl2 /\ chassis.dir2 \notin ValidDirs)
          => motor_pins'[2] = motor_pins[2] /\ pwm_pulse'[2] = pwm_pulse[2]]_vars

\* after "1,100;2,100" and a tick, the frame "3,1.0" and another tick: wheel 1
\* still driven forward at full duty
C34_Witness ==
    /\ chassis.pc = "sleep"
    /\ chassis.dir1 = 3
    /\ motor1_target_dir = 3
    /\ motor_pins[1] = "forward"
    /\ pwm_pulse[1] = DutyPulse(1)

\* C35: cmd_speed with a half that does not parse returns -1 at once: it does
\* not go on to take the target mutex, whoever holds it, and the four targets
\* stay as they were, also when the first half had parsed.
C35_UnparsableSpeedChangesNothing ==
    /\ [](shell.arg \notin UnparsableArgs \/ shell.pc = "idle")
    /\ [][\A arg \in UnparsableArgs :
              CmdSpeedParse(arg)
              => /\ shell' = [ShellIdle EXCEPT !.ret = -1]
                 /\ target_mutex' = target_mutex
                 /\ Targets' = Targets]_vars

\* "1,2.0;x" or "2,1.5;" has just been refused while the targets of an
\* earlier "2,1.5" stand and the control thread holds the mutex
C35_Witness ==
    /\ shell.pc = "idle"
    /\ shell.ret = -1
    /\ Targets = <<2, 1500, 0, 0>>
    /\ target_mutex = "chassis"


\* C36: whenever the feedback thread hands a frame to rpmsg_send, the endpoint
\* is ready and feedback is enabled at that moment, however the thread's cycle
\* interleaves with the unbind callback and with "rpmsg_feedback off".
C36_NoSendWhenNotReadyOrDisabled ==
    [][(\E ret \in SendResults : FeedbackSend(ret))
       => endpoint_ready /\ feedback_enabled]_vars

NewProtocol == new_protocol_enabled /\ odom_configured

\* C37: once a CFG frame has been accepted, the new-protocol flag and the
\* is-configured flag stay set whatever frame or shell command follows, and
\* every frame the feedback thread builds from then on is an ODM frame.
C37_NewProtocolLatches ==
    [][NewProtocol
       => /\ NewProtocol'
          /\ FeedbackBuild => feedback'.frame.kind = "ODM"]_vars

\* an ODM frame built after a configuration and a legacy frame after it
C37_Witness ==
    /\ NewProtocol
    /\ rpmsg_log = "legacy"
    /\ feedback.pc = "send"
    /\ feedback.frame.kind = "ODM"
    /\ telemetry.frame.kind = "ODM"

\* C38: while the tick counter has not wrapped (it stays far below 2^32
\* here), no call of odometry_update stores a timestamp_ms below the one
\* stored before it.
C38_TimestampNeverGoesBack ==
    [][(\E in \in UptimeMoves : PoseUpdate(in))
       => odom_state'.timestamp_ms >= odom_state.timestamp_ms]_vars

\* C39: the host's "stop" arrives as "VEL:0.000,0.000" and ends with both
\* wheel targets Stop (direction 0, speed 0), with or without an accepted
\* CFG frame and whatever the targets were.
C39_HostStopStopsBothWheels ==
    [][/\ HostStop
          => /\ rpmsg'.pc = "set_take"
             /\ rpmsg'.recv_str = F_VEL_ZERO
             /\ rpmsg'.dir1 = 0 /\ rpmsg'.speed1 = 0
             /\ rpmsg'.dir2 = 0 /\ rpmsg'.speed2 = 0
       /\ (ChassisSetTargetStore /\ rpmsg.recv_str = F_VEL_ZERO)
          => Targets' = <<0, 0, 0, 0>>]_vars

\* the stop stored after "vel 0.5 0" under wheel_radius = 0.05
C39_Witness ==
    /\ rpmsg.pc = "set_release"
    /\ rpmsg.recv_str = F_VEL_ZERO
    /\ odom_configured
    /\ prev_write = <<1, 1591, 1, 1591>>
    /\ Targets = <<0, 0, 0, 0>>

\* C40: whatever the interleaving of pulse_reset, pulse_get_delta and the
\* edge interrupt, the delta pulse_get_delta returns is at most the number
\* of complete pulses counted since the previous call read the counter (up
\* to the return of this call); in particular it is never a wrapped value
\* near 2^32.
C40_DeltaAtMostPulsesSince ==
    [](pulse_test.pc = "print"
       => /\ pulse_test.delta[1] = 0
          /\ pulse_test.delta[2] <= pulse_test.window + pulse_test.since)

====
